---- MODULE Spec2Model ----
(***************************************************************************)
(* A model of the gdbstub protocol engine: the command dispatcher          *)
(* (handle_base, handle_register_info), the resume machine (do_vcont) and  *)
(* the stop-reason encoder (finish_exec) of src/gdbstub_impl/ext/base.rs   *)
(* and src/stub/core_impl/register_info.rs, driven by the blocking         *)
(* top-level loop of the stub.                                             *)
(*                                                                         *)
(* A response is the sequence of tokens the handler handed to the response *)
(* writer, one token per write_* call; Wire(resp) is the payload they form.*)
(* Writes to the transport are taken to succeed; a transport failure is    *)
(* the separate step ConnectionFailure.                                    *)
(***************************************************************************)
EXTENDS Integers, Sequences, FiniteSets, TLC

(* ------------------------------ bounds -------------------------------- *)

\* Largest thread id the client and the host name.
MaxTid == 2
\* A host profile is built from at most this many optional capabilities.
MaxCaps == 1
\* Size in bytes of the packet buffer the stub was constructed with.
PacketBufLen == 2
\* Largest length an m / M command asks for.
MaxMemLen == 3
\* Largest register number a qRegisterInfo command asks for.
MaxRegNum == 1
\* Longest action list of a vCont packet in the specification of the resume
\* machine.
MaxActions == 3

(* ----------------------------- constants ------------------------------ *)

SINGLE_THREAD_TID == 1
FAKE_PID == 1

Tids == 1..MaxTid

\* gdbstub::common::Signal values used by the hosts: SIGINT, SIGTRAP, SIGSTOP.
SIGINT == 2
SIGTRAP == 5
SIGSTOP == 17
Signals == {SIGINT, SIGTRAP, SIGSTOP}

\* Exit codes a target reports (u8).
ExitCodes == {0, 1, 255}

(* ------------------------- response writer ---------------------------- *)

HexDigits ==
    <<"0", "1", "2", "3", "4", "5", "6", "7", "8", "9", "a", "b", "c", "d", "e", "f">>

\* One byte as two lower-hex digits (write_hex).
write_hex(b) == HexDigits[(b \div 16) + 1] \o HexDigits[(b % 16) + 1]

RECURSIVE NumBytes(_)
NumBytes(n) ==
    IF n < 256 THEN write_hex(n) ELSE NumBytes(n \div 256) \o write_hex(n % 256)

\* write_num: the big-endian bytes of n in hex, leading zero bytes dropped,
\* zero itself as one byte.
write_num(n) == NumBytes(n)

RECURSIVE HexBuf(_)
HexBuf(bytes) ==
    IF bytes = <<>> THEN "" ELSE write_hex(Head(bytes)) \o HexBuf(Tail(bytes))

\* write_hex_buf: each byte as two lower-hex digits.
write_hex_buf(bytes) == HexBuf(bytes)

\* A SpecificIdKind is [k |-> "All" | "WithId", id |-> n].
IdAll == [k |-> "All", id |-> 0]
IdAny == [k |-> "Any", id |-> 0]
WithId(n) == [k |-> "WithId", id |-> n]

write_specific_id_kind(t) == IF t.k = "All" THEN "-1" ELSE write_num(t.id)

\* write_specific_thread_id with pid present: p<pid>.<tid>
write_specific_thread_id(pid, tid) ==
    "p" \o write_specific_id_kind(pid) \o "." \o write_specific_id_kind(tid)

RECURSIVE Wire(_)
\* The payload a sequence of written tokens forms.
Wire(toks) == IF toks = <<>> THEN "" ELSE Head(toks) \o Wire(Tail(toks))

Contains(toks, t) == \E i \in 1..Len(toks) : toks[i] = t

(* --------------------------- capabilities ----------------------------- *)

ExtendedModeSub ==
    {"support_configure_aslr", "support_configure_env",
     "support_configure_startup_shell", "support_configure_working_dir"}

BreakpointsSub ==
    {"support_sw_breakpoint", "support_hw_breakpoint", "support_hw_watchpoint"}

OptionalCaps ==
    {"support_single_step", "support_range_step",
     "support_reverse_cont", "support_reverse_step",
     "support_extended_mode", "support_breakpoints",
     "support_catch_syscalls", "target_description_xml",
     "support_target_description_xml_override", "support_memory_map",
     "support_exec_file", "support_auxv", "support_register_info"}
    \cup ExtendedModeSub \cup BreakpointsSub

\* A sub-capability is reached through its parent's handle only: a host that
\* exposes it exposes the parent.
WithParents(cs) ==
    cs \cup (IF cs \cap ExtendedModeSub # {} THEN {"support_extended_mode"} ELSE {})
       \cup (IF cs \cap BreakpointsSub # {} THEN {"support_breakpoints"} ELSE {})

\* The two sources of a target description.
XmlSources == {"target_description_xml", "support_target_description_xml_override"}

\* The hosts: every one built from at most MaxCaps optional capabilities, and
\* the one that has both sources of a target description.
HostProfiles ==
    {WithParents(cs) : cs \in {x \in SUBSET OptionalCaps : Cardinality(x) <= MaxCaps}}
    \cup {XmlSources}

(* ------------------------------- state -------------------------------- *)

VARIABLES
    base_ops,            \* "SingleThread" | "MultiThread": the variant of target.base_ops()
    caps,                \* the optional capabilities the host exposes
    no_ack_mode,         \* GdbStubImpl::no_ack_mode
    current_mem_tid,     \* GdbStubImpl::current_mem_tid (a Tid)
    current_resume_tid,  \* GdbStubImpl::current_resume_tid (a SpecificIdKind)
    pc,                  \* "idle": awaiting a packet; "handled": command answered;
                         \* "running": awaiting a stop reason; "disconnected"; "error";
                         \* "panicked": the stub was aborted by a panic
    pre,                 \* the engine fields as they were before the last step
    ev,                  \* the command or stop report handled by the last step
    status,              \* the handler's outcome
    err,                 \* the error the handler returned, if any
    reason,              \* the DisconnectReason, if any
    resp,                \* the tokens the handler wrote to the response writer
    sent,                \* the framed responses put on the wire by the last step
    acks,                \* the '+' bytes put on the wire by the last step
    calls,               \* the host operations the handler invoked, in order
    client               \* the debugger reading the target description: the offset
                         \* of its next request, the text received, the requests
                         \* made, and whether it was told the end

vars ==
    <<base_ops, caps, no_ack_mode, current_mem_tid, current_resume_tid, pc, pre, ev,
      status, err, reason, resp, sent, acks, calls, client>>

Has(c) == c \in caps
Multi == base_ops = "MultiThread"

(* --------------------------- result values ---------------------------- *)

NoErr == [kind |-> "none", code |-> 0]
Error(kind) == [kind |-> kind, code |-> 0]
NonFatalError(code) == [kind |-> "NonFatalError", code |-> code]

FatalKinds ==
    {"PacketParse", "PacketUnexpected", "PacketBufferOverflow", "TargetMismatch",
     "NoActiveThreads", "UnsupportedStopReason", "TargetError", "Connection"}

NoReason == [kind |-> "none", val |-> 0]
DisconnectReason(kind, val) == [kind |-> kind, val |-> val]

\* A host call: the operation, the thread it names (0: none) and two arguments.
Call(op, tid, x, y) == [op |-> op, tid |-> tid, x |-> x, y |-> y]

\* What a handler leaves behind: Ok(status) or Err(err), the tokens written,
\* the host calls made and the engine fields as the handler leaves them.
Result(st, e, rsn, toks, cs, mem, res, noack) ==
    [status |-> st, err |-> e, reason |-> rsn, resp |-> toks, calls |-> cs,
     mem |-> mem, res |-> res, noack |-> noack]

Ok(st, toks, cs) ==
    Result(st, NoErr, NoReason, toks, cs, current_mem_tid, current_resume_tid,
           no_ack_mode)

Err(e, toks, cs) ==
    Result("Err", e, NoReason, toks, cs, current_mem_tid, current_resume_tid,
           no_ack_mode)

Disconnect(rsn, toks, cs) ==
    Result("Disconnect", NoErr, rsn, toks, cs, current_mem_tid,
           current_resume_tid, no_ack_mode)

\* The handler panics ("attempt to add with overflow") and never returns:
\* toks and cs are what it had written and called by then.
Panic(toks, cs) ==
    Result("Panic", NoErr, NoReason, toks, cs, current_mem_tid, current_resume_tid,
           no_ack_mode)

\* The outcomes of a host operation returning TargetResult.
TargetResults == {"Ok", "NonFatal", "Errno", "Fatal"}
\* The outcomes of a host operation returning Result<_, Self::Error>.
PlainResults == {"Ok", "Fatal"}
\* The errno a host reports with TargetError::Errno (a bound of the hosts'
\* answers, like the ones above).
HostErrno == 22

\* TargetResultExt::handle_error: a fatal host error ends the session, every
\* other one becomes NonFatalError(code).
handle_error(r) ==
    CASE r = "Fatal" -> Error("TargetError")
      [] r = "NonFatal" -> NonFatalError(1)
      [] r = "Errno" -> NonFatalError(HostErrno)

Opt(c, toks) == IF c THEN toks ELSE <<>>

(* ------------------- handle_base: handshaking, queries ---------------- *)

\* get_sane_any_tid falling back to SINGLE_THREAD_TID when the host lists no
\* thread.
get_sane_any_tid_EmptyIsDefault(threads, r) ==
    IF ~Multi
    THEN [err |-> NoErr, tid |-> SINGLE_THREAD_TID, calls |-> <<>>]
    ELSE LET cs == <<Call("list_active_threads", 0, 0, 0)>>
         IN  IF r # "Ok"
             THEN [err |-> Error("TargetError"), tid |-> 0, calls |-> cs]
             ELSE IF threads = <<>>
                  THEN [err |-> NoErr, tid |-> SINGLE_THREAD_TID, calls |-> cs]
                  ELSE [err |-> NoErr, tid |-> threads[1], calls |-> cs]

\* get_sane_any_tid: SINGLE_THREAD_TID, or the first thread the host lists.
\* threads is the host's answer to list_active_threads, r its result.
\* Yields [err, tid, calls].
get_sane_any_tid(threads, r) ==
    IF ~Multi
    THEN [err |-> NoErr, tid |-> SINGLE_THREAD_TID, calls |-> <<>>]
    ELSE LET cs == <<Call("list_active_threads", 0, 0, 0)>>
         IN  IF r # "Ok"
             THEN [err |-> Error("TargetError"), tid |-> 0, calls |-> cs]
             ELSE IF threads = <<>>
                  THEN [err |-> Error("NoActiveThreads"), tid |-> 0, calls |-> cs]
                  ELSE [err |-> NoErr, tid |-> threads[1], calls |-> cs]

\* Base::qSupported
Base_qSupported(packet_buffer_len) ==
    Ok("Handled",
       <<"PacketSize=", write_num(packet_buffer_len), ";vContSupported+",
         ";multiprocess+", ";QStartNoAckMode+">>
       \o Opt(Has("support_reverse_cont"), <<";ReverseContinue+">>)
       \o Opt(Has("support_reverse_step"), <<";ReverseStep+">>)
       \o Opt(Has("support_extended_mode"),
              Opt(Has("support_configure_aslr"), <<";QDisableRandomization+">>)
              \o Opt(Has("support_configure_env"),
                     <<";QEnvironmentHexEncoded+", ";QEnvironmentUnset+",
                       ";QEnvironmentReset+">>)
              \o Opt(Has("support_configure_startup_shell"), <<";QStartupWithShell+">>)
              \o Opt(Has("support_configure_working_dir"), <<";QSetWorkingDir+">>))
       \o Opt(Has("support_breakpoints"),
              Opt(Has("support_sw_breakpoint"), <<";swbreak+">>)
              \o Opt(Has("support_hw_breakpoint") \/ Has("support_hw_watchpoint"),
                     <<";hwbreak+">>))
       \o Opt(Has("support_catch_syscalls"), <<";QCatchSyscalls+">>)
       \o Opt(Has("target_description_xml")
                \/ Has("support_target_description_xml_override"),
              <<";qXfer:features:read+">>)
       \o Opt(Has("support_memory_map"), <<";qXfer:memory-map:read+">>)
       \o Opt(Has("support_exec_file"), <<";qXfer:exec-file:read+">>)
       \o Opt(Has("support_auxv"), <<";qXfer:auxv:read+">>),
       <<>>)

\* Base::QStartNoAckMode toggling the flag instead of setting it.
Base_QStartNoAckMode_Toggle ==
    Result("NeedsOk", NoErr, NoReason, <<>>, <<>>, current_mem_tid,
           current_resume_tid, ~no_ack_mode)

\* Base::QStartNoAckMode
Base_QStartNoAckMode ==
    Result("NeedsOk", NoErr, NoReason, <<>>, <<>>, current_mem_tid,
           current_resume_tid, TRUE)

\* Arch::target_description_xml() of the modelled architecture: a str, held
\* as the sequence of its chars (Unicode scalar values). It is "\n<t/> ", with
\* the whitespace a raw string literal carries around it.
StaticXml == <<10, 60, 116, 47, 62, 32>>

\* The chars with the Unicode White_Space property.
WhiteSpace ==
    (9..13) \cup {32, 133, 160, 5760} \cup (8192..8202)
    \cup {8232, 8233, 8239, 8287, 12288}

\* char::is_whitespace, which str::trim strips by
IsSpace(ch) == ch \in WhiteSpace

RECURSIVE TrimStart(_)
TrimStart(cs) ==
    IF cs # <<>> /\ IsSpace(Head(cs)) THEN TrimStart(Tail(cs)) ELSE cs

RECURSIVE TrimEnd(_)
TrimEnd(cs) ==
    IF cs # <<>> /\ IsSpace(cs[Len(cs)])
    THEN TrimEnd(SubSeq(cs, 1, Len(cs) - 1))
    ELSE cs

\* str::trim
Trim(cs) == TrimEnd(TrimStart(cs))

\* The UTF-8 encoding of one char.
Utf8(ch) ==
    IF ch < 128 THEN <<ch>>
    ELSE IF ch < 2048 THEN <<192 + (ch \div 64), 128 + (ch % 64)>>
    ELSE IF ch < 65536
    THEN <<224 + (ch \div 4096), 128 + ((ch \div 64) % 64), 128 + (ch % 64)>>
    ELSE <<240 + (ch \div 262144), 128 + ((ch \div 4096) % 64),
           128 + ((ch \div 64) % 64), 128 + (ch % 64)>>

RECURSIVE as_bytes(_)
\* str::as_bytes: the UTF-8 bytes of a str.
as_bytes(cs) == IF cs = <<>> THEN <<>> ELSE Utf8(Head(cs)) \o as_bytes(Tail(cs))

\* The printable ASCII characters from 0x20 to 0x5f, and from 0x61 to 0x7e.
AsciiLow ==
    <<" ", "!", "\"", "#", "$", "%", "&", "'", "(", ")", "*", "+", ",", "-", ".", "/",
      "0", "1", "2", "3", "4", "5", "6", "7", "8", "9", ":", ";", "<", "=", ">", "?",
      "@", "A", "B", "C", "D", "E", "F", "G", "H", "I", "J", "K", "L", "M", "N", "O",
      "P", "Q", "R", "S", "T", "U", "V", "W", "X", "Y", "Z", "[", "\\", "]", "^", "_">>

AsciiHigh ==
    <<"a", "b", "c", "d", "e", "f", "g", "h", "i", "j", "k", "l", "m", "n", "o",
      "p", "q", "r", "s", "t", "u", "v", "w", "x", "y", "z", "{", "|", "}", "~">>

\* One byte of a payload as the character it is on the wire. A payload of this
\* model is text, so a byte has a value here only if a string can hold its
\* character: printable ASCII but for the grave accent (0x60), and four
\* control characters.
ByteText(b) ==
    CASE b \in 32..95 -> AsciiLow[b - 31]
      [] b \in 97..126 -> AsciiHigh[b - 96]
      [] b = 9 -> "\t"
      [] b = 10 -> "\n"
      [] b = 12 -> "\f"
      [] b = 13 -> "\r"

\* The bytes a binary payload escapes: # $ * }
EscapedBytes == {35, 36, 42, 125}

\* b XOR 0x20
FlipBit5(b) == IF (b \div 32) % 2 = 1 THEN b - 32 ELSE b + 32

RECURSIVE write_binary(_)
\* write_binary: the bytes as they are, an escaped byte as } followed by the
\* byte XOR 0x20.
write_binary(bytes) ==
    IF bytes = <<>>
    THEN ""
    ELSE (IF Head(bytes) \in EscapedBytes
          THEN "}" \o ByteText(FlipBit5(Head(bytes)))
          ELSE ByteText(Head(bytes)))
         \o write_binary(Tail(bytes))

Min(a, b) == IF a <= b THEN a ELSE b
Max(a, b) == IF a >= b THEN a ELSE b

\* The width of usize and of u64 on the host the stub is built for.
UsizeBits == 64

\* A usize (and the u64 of cmd.offset, which the cast to usize leaves as it is on
\* this host) is held as the i64 with the same 64 bits: a value below 2^63 is
\* itself, a value v from 2^63 on is v - 2^64. usize::MAX is -1.
UsizeMax == -1

\* a < b as usize
UsizeLt(a, b) == IF (a >= 0) = (b >= 0) THEN a < b ELSE b < 0

\* usize::min
UsizeMin(a, b) == IF UsizeLt(a, b) THEN a ELSE b

\* Whether a + b as usize passes usize::MAX.
UsizeAddOverflows(a, b) ==
    IF a >= 0 /\ b >= 0 THEN FALSE
    ELSE IF a < 0 /\ b < 0 THEN TRUE
    ELSE a + b >= 0

\* usize::wrapping_add: a + b modulo 2^64, which is what + gives in a build
\* without overflow checks.
wrapping_add(a, b) ==
    LET s == a + b
        h == (s \div 16777216) \div 16777216
    IN  IF h >= 32768 THEN s - 2^UsizeBits
        ELSE IF h < -32768 THEN s + 2^UsizeBits
        ELSE s

\* The bytes the host's override reader leaves in the buffer: o, v, r, o, v, r and so on.
OverrideXml(n) == [j \in 1..n |-> <<111, 118, 114>>[((j - 1) % 3) + 1]]

\* Base::qXferFeaturesRead serving the static XML with the whitespace around
\* it.
Base_qXferFeaturesRead_Untrimmed(offset, length, buf_len, r, ret, overflow_checks) ==
    LET finish(n, data, cs) ==
            IF n = 0
            THEN Ok("Handled", <<"l">>, cs)
            ELSE IF UsizeLt(buf_len, n)
                 THEN Err(Error("PacketBufferOverflow"), <<"m">>, cs)
                 ELSE Ok("Handled", <<"m", write_binary(SubSeq(data, 1, n))>>, cs)
    IN  IF Has("support_target_description_xml_override")
        THEN LET cs == <<Call("target_description_xml", 0, offset, length)>>
             IN  IF r # "Ok"
                 THEN Err(handle_error(r), <<>>, cs)
                 ELSE finish(ret, OverrideXml(UsizeMin(ret, buf_len)), cs)
        ELSE IF Has("target_description_xml")
             THEN LET xml == as_bytes(StaticXml)
                      xml_len == Len(xml)
                      start == UsizeMin(xml_len, offset)
                      end == UsizeMin(xml_len, wrapping_add(offset, length))
                      data == SubSeq(xml, start + 1, Max(end, start))
                      n == Min(Len(data), buf_len)
                  IN  IF overflow_checks /\ UsizeAddOverflows(offset, length)
                      THEN Panic(<<>>, <<>>)
                      ELSE finish(n, data, <<>>)
             ELSE Err(Error("PacketUnexpected"), <<>>, <<>>)

\* Base::qXferFeaturesRead answering l<bytes> when the window served from the
\* static XML reaches its end.
Base_qXferFeaturesRead_LastWindowL(offset, length, buf_len, r, ret, overflow_checks) ==
    LET finish(n, data, cs, last) ==
            IF n = 0
            THEN Ok("Handled", <<"l">>, cs)
            ELSE IF UsizeLt(buf_len, n)
                 THEN Err(Error("PacketBufferOverflow"), <<"m">>, cs)
                 ELSE Ok("Handled",
                         <<IF last THEN "l" ELSE "m",
                           write_binary(SubSeq(data, 1, n))>>, cs)
    IN  IF Has("support_target_description_xml_override")
        THEN LET cs == <<Call("target_description_xml", 0, offset, length)>>
             IN  IF r # "Ok"
                 THEN Err(handle_error(r), <<>>, cs)
                 ELSE finish(ret, OverrideXml(UsizeMin(ret, buf_len)), cs, FALSE)
        ELSE IF Has("target_description_xml")
             THEN LET xml == as_bytes(Trim(StaticXml))
                      xml_len == Len(xml)
                      start == UsizeMin(xml_len, offset)
                      end == UsizeMin(xml_len, wrapping_add(offset, length))
                      data == SubSeq(xml, start + 1, Max(end, start))
                      n == Min(Len(data), buf_len)
                  IN  IF overflow_checks /\ UsizeAddOverflows(offset, length)
                      THEN Panic(<<>>, <<>>)
                      ELSE finish(n, data, <<>>, start + n = xml_len)
             ELSE Err(Error("PacketUnexpected"), <<>>, <<>>)

\* Base::qXferFeaturesRead preferring the static XML to the host's override
\* reader.
Base_qXferFeaturesRead_StaticFirst(offset, length, buf_len, r, ret, overflow_checks) ==
    LET finish(n, data, cs) ==
            IF n = 0
            THEN Ok("Handled", <<"l">>, cs)
            ELSE IF UsizeLt(buf_len, n)
                 THEN Err(Error("PacketBufferOverflow"), <<"m">>, cs)
                 ELSE Ok("Handled", <<"m", write_binary(SubSeq(data, 1, n))>>, cs)
    IN  IF Has("target_description_xml")
        THEN LET xml == as_bytes(Trim(StaticXml))
                 xml_len == Len(xml)
                 start == UsizeMin(xml_len, offset)
                 end == UsizeMin(xml_len, wrapping_add(offset, length))
                 data == SubSeq(xml, start + 1, Max(end, start))
                 n == Min(Len(data), buf_len)
             IN  IF overflow_checks /\ UsizeAddOverflows(offset, length)
                 THEN Panic(<<>>, <<>>)
                 ELSE finish(n, data, <<>>)
        ELSE IF Has("support_target_description_xml_override")
             THEN LET cs == <<Call("target_description_xml", 0, offset, length)>>
                  IN  IF r # "Ok"
                      THEN Err(handle_error(r), <<>>, cs)
                      ELSE finish(ret, OverrideXml(UsizeMin(ret, buf_len)), cs)
             ELSE Err(Error("PacketUnexpected"), <<>>, <<>>)

\* Base::qXferFeaturesRead. buf_len is cmd.buf.len(); r and ret are the result
\* and the byte count of the host's override reader, which fills the buffer
\* from OverrideXml; overflow_checks is whether the build checks arithmetic
\* for overflow (a debug build) or lets it wrap (a release build).
Base_qXferFeaturesRead(offset, length, buf_len, r, ret, overflow_checks) ==
    LET finish(n, data, cs) ==
            IF n = 0
            THEN Ok("Handled", <<"l">>, cs)
            ELSE IF UsizeLt(buf_len, n)
                 THEN Err(Error("PacketBufferOverflow"), <<"m">>, cs)
                 ELSE Ok("Handled", <<"m", write_binary(SubSeq(data, 1, n))>>, cs)
    IN  IF Has("support_target_description_xml_override")
        THEN LET cs == <<Call("target_description_xml", 0, offset, length)>>
             IN  IF r # "Ok"
                 THEN Err(handle_error(r), <<>>, cs)
                 ELSE finish(ret, OverrideXml(UsizeMin(ret, buf_len)), cs)
        ELSE IF Has("target_description_xml")
             THEN LET xml == as_bytes(Trim(StaticXml))
                      xml_len == Len(xml)
                      start == UsizeMin(xml_len, offset)
                      end == UsizeMin(xml_len, wrapping_add(offset, length))
                      data == SubSeq(xml, start + 1, Max(end, start))
                      n == Min(Len(data), buf_len)
                  IN  IF overflow_checks /\ UsizeAddOverflows(offset, length)
                      THEN Panic(<<>>, <<>>)
                      ELSE finish(n, data, <<>>)
             ELSE Err(Error("PacketUnexpected"), <<>>, <<>>)

(* ------------------- handle_base: core functionality ------------------ *)

\* Base::QuestionMark reporting the stop of a thread once a stop has selected
\* one.
Base_QuestionMark_ThreadStop ==
    IF current_resume_tid.k = "WithId"
    THEN Ok("Handled", <<"T05", "thread:", write_num(current_resume_tid.id), ";">>, <<>>)
    ELSE Ok("Handled", <<"S05">>, <<>>)

\* Base::QuestionMark
Base_QuestionMark == Ok("Handled", <<"S05">>, <<>>)

\* Base::qAttached. pid is cmd.pid (0: absent); r and attached are the host's
\* answer to query_if_attached.
Base_qAttached(pid, r, attached) ==
    IF ~Has("support_extended_mode")
    THEN Ok("Handled", <<"1">>, <<>>)
    ELSE IF pid = 0
         THEN Err(Error("PacketUnexpected"), <<>>, <<>>)
         ELSE LET cs == <<Call("query_if_attached", 0, pid, 0)>>
              IN  IF r # "Ok"
                  THEN Err(handle_error(r), <<>>, cs)
                  ELSE Ok("Handled", <<IF attached THEN "1" ELSE "0">>, cs)

\* The thread argument fixed to SINGLE_THREAD_TID on a multi-thread target.
MemTid_Default == IF Multi THEN SINGLE_THREAD_TID ELSE 0

\* The thread argument of a register or memory operation: none on a
\* single-thread target, current_mem_tid on a multi-thread one.
MemTid == IF Multi THEN current_mem_tid ELSE 0

\* The register file the host reports, as gdb_serialize hands it over byte by
\* byte; -1 stands for a missing byte (None).
HostRegs == <<1, 171, -1>>

RECURSIVE Serialize(_)
Serialize(regs) ==
    IF regs = <<>>
    THEN <<>>
    ELSE <<IF Head(regs) < 0 THEN "xx" ELSE write_hex_buf(<<Head(regs)>>)>>
         \o Serialize(Tail(regs))

\* Base::g. r is the result of read_registers.
Base_g(r) ==
    LET cs == <<Call("read_registers", MemTid, 0, 0)>>
    IN  IF r # "Ok"
        THEN Err(handle_error(r), <<>>, cs)
        ELSE Ok("Handled", Serialize(HostRegs), cs)

\* Base::G handing the registers to the host before looking at what
\* gdb_deserialize said.
Base_G_WriteFirst(accepted, r) ==
    LET cs == <<Call("write_registers", MemTid, 0, 0)>>
    IN  IF ~accepted
        THEN Err(Error("TargetMismatch"), <<>>, cs)
        ELSE IF r # "Ok"
             THEN Err(handle_error(r), <<>>, cs)
             ELSE Ok("NeedsOk", <<>>, cs)

\* Base::G. accepted is whether gdb_deserialize takes cmd.vals; r is the result
\* of write_registers.
Base_G(accepted, r) ==
    IF ~accepted
    THEN Err(Error("TargetMismatch"), <<>>, <<>>)
    ELSE LET cs == <<Call("write_registers", MemTid, 0, 0)>>
         IN  IF r # "Ok"
             THEN Err(handle_error(r), <<>>, cs)
             ELSE Ok("NeedsOk", <<>>, cs)

\* The width of the architecture's Usize: the modelled architecture has
\* Usize = u8.
ArchUsizeBits == 8
\* Usize::MAX
ArchUsizeMax == 2^ArchUsizeBits - 1

\* The byte the host's memory holds at an address.
MemByte(a) == a % 256

\* The n bytes the host reads from address a on, the addresses taken in the
\* architecture's address space.
MemBytes(a, n) == [j \in 1..n |-> MemByte((a + j - 1) % (ArchUsizeMax + 1))]

RECURSIVE ReadLoop_NoOffset(_, _, _, _, _, _, _, _, _)
\* The loop of Base::m reading every chunk at the base address.
ReadLoop_NoOffset(addr, n, i, buf_len, fail_at, r, overflow_checks, toks, cs) ==
    IF n = 0
    THEN Ok("Handled", toks, cs)
    ELSE IF UsizeLt(ArchUsizeMax, i)
    THEN Err(Error("TargetMismatch"), toks, cs)
    ELSE LET chunk_size == UsizeMin(n, buf_len)
             cs2 == Append(cs, Call("read_addrs", MemTid, addr, chunk_size))
         IN  IF Len(cs2) = fail_at /\ r # "Ok"
             THEN Err(handle_error(r), toks, cs2)
             ELSE ReadLoop_NoOffset(addr, n - chunk_size, i + chunk_size, buf_len,
                                    fail_at, r, overflow_checks,
                                    Append(toks, write_hex_buf(MemBytes(addr, chunk_size))),
                                    cs2)

RECURSIVE ReadLoop(_, _, _, _, _, _, _, _, _)
\* The loop of Base::m: n bytes left, i bytes done; the read_addrs call number
\* fail_at (0: none) ends with result r. The offset i is cast to Usize, which
\* fails when it does not fit, and added to the address in Usize: when the sum
\* passes Usize::MAX a build with overflow checks panics and one without
\* wraps.
ReadLoop(addr, n, i, buf_len, fail_at, r, overflow_checks, toks, cs) ==
    IF n = 0
    THEN Ok("Handled", toks, cs)
    ELSE IF UsizeLt(ArchUsizeMax, i)
    THEN Err(Error("TargetMismatch"), toks, cs)
    ELSE IF overflow_checks /\ addr + i > ArchUsizeMax
    THEN Panic(toks, cs)
    ELSE LET chunk_size == UsizeMin(n, buf_len)
             chunk_addr == (addr + i) % (ArchUsizeMax + 1)
             cs2 == Append(cs, Call("read_addrs", MemTid, chunk_addr, chunk_size))
         IN  IF Len(cs2) = fail_at /\ r # "Ok"
             THEN Err(handle_error(r), toks, cs2)
             ELSE ReadLoop(addr, n - chunk_size, i + chunk_size, buf_len, fail_at, r,
                           overflow_checks,
                           Append(toks,
                                  write_hex_buf(MemBytes(chunk_addr, chunk_size))),
                           cs2)

\* Base::m. addr_ok is whether cmd.addr fits the architecture's Usize.
Base_m(addr_ok, addr, len, buf_len, fail_at, r, overflow_checks) ==
    IF ~addr_ok
    THEN Err(Error("TargetMismatch"), <<>>, <<>>)
    ELSE ReadLoop(addr, len, 0, buf_len, fail_at, r, overflow_checks, <<>>, <<>>)

\* Base::M writing OK itself and still asking the driver for one.
Base_M_ManualOk(addr_ok, addr, len, r) ==
    IF ~addr_ok
    THEN Err(Error("TargetMismatch"), <<>>, <<>>)
    ELSE LET cs == <<Call("write_addrs", MemTid, addr, len)>>
         IN  IF r # "Ok"
             THEN Err(handle_error(r), <<>>, cs)
             ELSE Ok("NeedsOk", <<"OK">>, cs)

\* Base::M. r is the result of write_addrs.
Base_M(addr_ok, addr, len, r) ==
    IF ~addr_ok
    THEN Err(Error("TargetMismatch"), <<>>, <<>>)
    ELSE LET cs == <<Call("write_addrs", MemTid, addr, len)>>
         IN  IF r # "Ok"
             THEN Err(handle_error(r), <<>>, cs)
             ELSE Ok("NeedsOk", <<>>, cs)

\* Base::k and Base::vKill disconnecting whatever the host's kill answers.
Base_k_AlwaysDisconnect(pid, r, should_terminate) ==
    IF ~Has("support_extended_mode")
    THEN Disconnect(DisconnectReason("Kill", 0), <<>>, <<>>)
    ELSE LET cs == <<Call("kill", 0, pid, 0)>>
         IN  IF r # "Ok"
             THEN Err(handle_error(r), <<>>, cs)
             ELSE Disconnect(DisconnectReason("Kill", 0), <<"OK">>, cs)

\* Base::k and Base::vKill. pid is the vKill packet's pid (0 for k); r and
\* should_terminate are the host's answer to kill.
Base_k(pid, r, should_terminate) ==
    IF ~Has("support_extended_mode")
    THEN Disconnect(DisconnectReason("Kill", 0), <<>>, <<>>)
    ELSE LET cs == <<Call("kill", 0, pid, 0)>>
         IN  IF r # "Ok"
             THEN Err(handle_error(r), <<>>, cs)
             ELSE IF should_terminate
                  THEN Disconnect(DisconnectReason("Kill", 0), <<"OK">>, cs)
                  ELSE Ok("NeedsOk", <<>>, cs)

\* Base::D
Base_D == Disconnect(DisconnectReason("Disconnect", 0), <<"OK">>, <<>>)

(* ------------------------- the resume machine ------------------------- *)

\* One element of vCont's action list as the iterator yields it: an action
\* [kind, sig, thread, x, y, dec], or kind "Malformed" for an element that does
\* not parse (None). thread is the action's thread-id mapped to its tid:
\* [k |-> "None"] when absent, else a SpecificIdKind. sig is the signal of a
\* ...WithSig kind (0 otherwise); x, y are RangeStep's bounds and dec whether
\* they decode into the architecture's Usize.
NoThread == [k |-> "None", id |-> 0]

Action(kind, sig, thread, x, y, dec) ==
    [kind |-> kind, sig |-> sig, thread |-> thread, x |-> x, y |-> y, dec |-> dec]

ThreadSelectors == {NoThread, IdAll} \cup {WithId(t) : t \in Tids}

VContActions ==
    {Action(kd, 0, th, 0, 0, TRUE) :
        kd \in {"Continue", "Step", "Stop"}, th \in ThreadSelectors}
    \cup {Action(kd, SIGINT, th, 0, 0, TRUE) :
        kd \in {"ContinueWithSig", "StepWithSig"}, th \in ThreadSelectors}
    \cup {Action("RangeStep", 0, th, 16, 32, dec) :
        th \in ThreadSelectors, dec \in BOOLEAN}
    \cup {Action("Malformed", 0, NoThread, 0, 0, TRUE)}

\* Actions::new_continue, Actions::new_step
new_continue(tid) == <<Action("Continue", 0, tid, 0, 0, TRUE)>>
new_step(tid) == <<Action("Step", 0, tid, 0, 0, TRUE)>>

PacketParseErr == Error("PacketParse")

\* The match of do_vcont_single_thread calling step and resume_range_step
\* without asking for the capability.
single_thread_resume_Unguarded(first_action, r) ==
    LET done(cs) ==
            [err |-> IF r = "Ok" THEN NoErr ELSE Error("TargetError"), calls |-> cs]
        fail(e) == [err |-> e, calls |-> <<>>]
    IN  CASE first_action.kind \in {"Continue", "ContinueWithSig"} ->
                 done(<<Call("resume", 0, first_action.sig, 0)>>)
          [] first_action.kind \in {"Step", "StepWithSig"} ->
                 done(<<Call("step", 0, first_action.sig, 0)>>)
          [] first_action.kind = "RangeStep" ->
                 IF ~first_action.dec
                 THEN fail(Error("TargetMismatch"))
                 ELSE done(<<Call("resume_range_step", 0, first_action.x,
                                  first_action.y)>>)
          [] OTHER -> fail(Error("PacketUnexpected"))

\* The match on first_action.kind of do_vcont_single_thread: the one host
\* operation the first action selects, with result r. Yields [err, calls].
single_thread_resume(first_action, r) ==
    LET done(cs) ==
            [err |-> IF r = "Ok" THEN NoErr ELSE Error("TargetError"), calls |-> cs]
        fail(e) == [err |-> e, calls |-> <<>>]
    IN  CASE first_action.kind \in {"Continue", "ContinueWithSig"} ->
                 done(<<Call("resume", 0, first_action.sig, 0)>>)
          [] first_action.kind \in {"Step", "StepWithSig"}
               /\ Has("support_single_step") ->
                 done(<<Call("step", 0, first_action.sig, 0)>>)
          [] first_action.kind = "RangeStep" /\ Has("support_range_step") ->
                 IF ~first_action.dec
                 THEN fail(Error("TargetMismatch"))
                 ELSE done(<<Call("resume_range_step", 0, first_action.x,
                                  first_action.y)>>)
          [] first_action.kind = "Stop" -> fail(Error("PacketUnexpected"))
          [] OTHER -> fail(Error("PacketUnexpected"))

\* do_vcont_single_thread passing any well-formed second action.
do_vcont_single_thread_AnySecond(actions, r) ==
    LET fail(e) == [err |-> e, calls |-> <<>>]
    IN  IF actions = <<>> \/ actions[1].kind = "Malformed"
        THEN fail(PacketParseErr)
        ELSE IF Len(actions) >= 2 /\ actions[2].kind = "Malformed"
        THEN fail(PacketParseErr)
        ELSE IF Len(actions) >= 3
             THEN fail(Error("PacketUnexpected"))
             ELSE single_thread_resume(actions[1], r)

\* do_vcont_single_thread: yields [err, calls].
do_vcont_single_thread(actions, r) ==
    LET fail(e) == [err |-> e, calls |-> <<>>]
    IN  IF actions = <<>> \/ actions[1].kind = "Malformed"
        THEN fail(PacketParseErr)
        ELSE IF Len(actions) >= 2 /\ actions[2].kind = "Malformed"
        THEN fail(PacketParseErr)
        ELSE LET invalid_second_action ==
                     Len(actions) >= 2 /\ actions[2].kind # "Continue"
             IN  IF invalid_second_action \/ Len(actions) >= 3
                 THEN fail(Error("PacketUnexpected"))
                 ELSE single_thread_resume(actions[1], r)

RECURSIVE MultiLoop_DefaultStepOk(_, _, _, _)
\* The loop of do_vcont_multi_thread taking a Step or RangeStep without a
\* concrete thread as a default action, the way it takes a Continue.
MultiLoop_DefaultStepOk(actions, cs, fail_at, r) ==
    LET failed(cs2) == Len(cs2) = fail_at /\ r # "Ok"
        host(c, rest) ==
            LET cs2 == Append(cs, c)
            IN  IF failed(cs2)
                THEN [err |-> Error("TargetError"), calls |-> cs2]
                ELSE IF rest THEN MultiLoop_DefaultStepOk(Tail(actions), cs2, fail_at, r)
                     ELSE [err |-> NoErr, calls |-> cs2]
        fail(e) == [err |-> e, calls |-> cs]
    IN  IF actions = <<>>
        THEN host(Call("resume", 0, 0, 0), FALSE)
        ELSE LET action == Head(actions)
             IN  CASE action.kind = "Malformed" -> fail(PacketParseErr)
                   [] action.kind \in {"Continue", "ContinueWithSig"} ->
                          IF action.thread.k = "WithId"
                          THEN host(Call("set_resume_action_continue",
                                         action.thread.id, action.sig, 0), TRUE)
                          ELSE MultiLoop_DefaultStepOk(Tail(actions), cs, fail_at, r)
                   [] action.kind \in {"Step", "StepWithSig"}
                        /\ Has("support_single_step") ->
                          IF action.thread.k = "WithId"
                          THEN host(Call("set_resume_action_step",
                                         action.thread.id, action.sig, 0), TRUE)
                          ELSE MultiLoop_DefaultStepOk(Tail(actions), cs, fail_at, r)
                   [] action.kind = "RangeStep" /\ Has("support_range_step") ->
                          IF action.thread.k = "WithId"
                          THEN IF ~action.dec
                               THEN fail(Error("TargetMismatch"))
                               ELSE host(Call("set_resume_action_range_step",
                                              action.thread.id, action.x, action.y),
                                         TRUE)
                          ELSE MultiLoop_DefaultStepOk(Tail(actions), cs, fail_at, r)
                   [] action.kind = "Stop" -> fail(Error("PacketUnexpected"))
                   [] OTHER -> fail(Error("PacketUnexpected"))

RECURSIVE MultiLoop(_, _, _, _)
\* The for loop of do_vcont_multi_thread over the actions left, then resume().
\* The host call number fail_at (0: none) ends with result r.
MultiLoop(actions, cs, fail_at, r) ==
    LET failed(cs2) == Len(cs2) = fail_at /\ r # "Ok"
        host(c, rest) ==
            LET cs2 == Append(cs, c)
            IN  IF failed(cs2)
                THEN [err |-> Error("TargetError"), calls |-> cs2]
                ELSE IF rest THEN MultiLoop(Tail(actions), cs2, fail_at, r)
                     ELSE [err |-> NoErr, calls |-> cs2]
        fail(e) == [err |-> e, calls |-> cs]
    IN  IF actions = <<>>
        THEN host(Call("resume", 0, 0, 0), FALSE)
        ELSE LET action == Head(actions)
             IN  CASE action.kind = "Malformed" -> fail(PacketParseErr)
                   [] action.kind \in {"Continue", "ContinueWithSig"} ->
                          IF action.thread.k = "WithId"
                          THEN host(Call("set_resume_action_continue",
                                         action.thread.id, action.sig, 0), TRUE)
                          ELSE MultiLoop(Tail(actions), cs, fail_at, r)
                   [] action.kind \in {"Step", "StepWithSig"}
                        /\ Has("support_single_step") ->
                          IF action.thread.k = "WithId"
                          THEN host(Call("set_resume_action_step",
                                         action.thread.id, action.sig, 0), TRUE)
                          ELSE fail(Error("PacketUnexpected"))
                   [] action.kind = "RangeStep" /\ Has("support_range_step") ->
                          IF action.thread.k = "WithId"
                          THEN IF ~action.dec
                               THEN fail(Error("TargetMismatch"))
                               ELSE host(Call("set_resume_action_range_step",
                                              action.thread.id, action.x, action.y),
                                         TRUE)
                          ELSE fail(Error("PacketUnexpected"))
                   [] action.kind = "Stop" -> fail(Error("PacketUnexpected"))
                   [] OTHER -> fail(Error("PacketUnexpected"))

\* do_vcont_multi_thread keeping the resume actions of the previous packet.
do_vcont_multi_thread_NoClear(actions, fail_at, r) ==
    MultiLoop(actions, <<>>, fail_at, r)

\* do_vcont_multi_thread resuming with the actions installed so far when the
\* list is rejected.
do_vcont_multi_thread_ResumesAnyway(actions, fail_at, r) ==
    LET cs == <<Call("clear_resume_actions", 0, 0, 0)>>
        done == MultiLoop(actions, cs, fail_at, r)
    IN  IF fail_at = 1 /\ r # "Ok"
        THEN [err |-> Error("TargetError"), calls |-> cs]
        ELSE IF done.err.kind \in {"none", "TargetError"}
        THEN done
        ELSE [err |-> NoErr, calls |-> Append(done.calls, Call("resume", 0, 0, 0))]

\* do_vcont_multi_thread: yields [err, calls].
do_vcont_multi_thread(actions, fail_at, r) ==
    LET cs == <<Call("clear_resume_actions", 0, 0, 0)>>
    IN  IF fail_at = 1 /\ r # "Ok"
        THEN [err |-> Error("TargetError"), calls |-> cs]
        ELSE MultiLoop(actions, cs, fail_at, r)

\* do_vcont answering a resume command at once instead of deferring.
do_vcont_NeedsOk(actions, fail_at, r) ==
    LET done == IF Multi
                THEN do_vcont_multi_thread(actions, fail_at, r)
                ELSE do_vcont_single_thread(actions, IF fail_at = 1 THEN r ELSE "Ok")
    IN  IF done.err # NoErr
        THEN Err(done.err, <<>>, done.calls)
        ELSE Ok("NeedsOk", <<>>, done.calls)

\* do_vcont
do_vcont(actions, fail_at, r) ==
    LET done == IF Multi
                THEN do_vcont_multi_thread(actions, fail_at, r)
                ELSE do_vcont_single_thread(actions, IF fail_at = 1 THEN r ELSE "Ok")
    IN  IF done.err # NoErr
        THEN Err(done.err, <<>>, done.calls)
        ELSE Ok("DeferredStopReason", <<>>, done.calls)

\* vCont::Query listing s and S only for a host that can also range-step.
Base_vCont_Query_StepNeedsRange ==
    Ok("Handled",
       <<"vCont;c;C">>
       \o Opt(Has("support_single_step") /\ Has("support_range_step"), <<";s;S">>)
       \o Opt(Has("support_range_step"), <<";r">>),
       <<>>)

\* vCont::Query listing s and S whatever the host can do.
Base_vCont_Query_AlwaysStep ==
    Ok("Handled",
       <<"vCont;c;C", ";s;S">> \o Opt(Has("support_range_step"), <<";r">>),
       <<>>)

\* vCont::Query
Base_vCont_Query ==
    Ok("Handled",
       <<"vCont;c;C">>
       \o Opt(Has("support_single_step"), <<";s;S">>)
       \o Opt(Has("support_range_step"), <<";r">>),
       <<>>)

\* vCont::Actions
Base_vCont_Actions(actions, fail_at, r) == do_vcont(actions, fail_at, r)

\* Base::c resuming the thread selected for memory access.
Base_c_MemThread(addr, fail_at, r) ==
    do_vcont(new_continue(WithId(current_mem_tid)), fail_at, r)

\* Base::c. addr is the packet's optional resume address, which the arm
\* does not bind.
Base_c(addr, fail_at, r) == do_vcont(new_continue(current_resume_tid), fail_at, r)

\* Base::s, addr as for Base::c.
Base_s(addr, fail_at, r) == do_vcont(new_step(current_resume_tid), fail_at, r)

(* ------------------- handle_base: multi-threading --------------------- *)

\* What an H command leaves selected.
set_mem_tid(t, cs) ==
    Result("NeedsOk", NoErr, NoReason, <<>>, cs, t, current_resume_tid, no_ack_mode)

set_resume_tid(t, cs) ==
    Result("NeedsOk", NoErr, NoReason, <<>>, cs, current_mem_tid, t, no_ack_mode)

\* Base::H with Op::Other resolving All the way it resolves Any.
Base_H_Other_AllAsAny(tid, any) ==
    CASE tid.k \in {"Any", "All"} ->
             IF any.err # NoErr
             THEN Err(any.err, <<>>, any.calls)
             ELSE set_mem_tid(any.tid, any.calls)
      [] tid.k = "WithId" -> set_mem_tid(tid.id, <<>>)

\* Base::H with Op::Other (Hg). any is what get_sane_any_tid yields.
Base_H_Other(tid, any) ==
    CASE tid.k = "Any" ->
             IF any.err # NoErr
             THEN Err(any.err, <<>>, any.calls)
             ELSE set_mem_tid(any.tid, any.calls)
      [] tid.k = "All" -> Err(Error("PacketUnexpected"), <<>>, <<>>)
      [] tid.k = "WithId" -> set_mem_tid(tid.id, <<>>)

\* Base::H with Op::StepContinue selecting a named thread for memory
\* operations as well.
Base_H_StepContinue_SetsBoth(tid, any) ==
    CASE tid.k = "Any" ->
             IF any.err # NoErr
             THEN Err(any.err, <<>>, any.calls)
             ELSE set_resume_tid(WithId(any.tid), any.calls)
      [] tid.k = "All" -> set_resume_tid(IdAll, <<>>)
      [] tid.k = "WithId" ->
             Result("NeedsOk", NoErr, NoReason, <<>>, <<>>, tid.id, WithId(tid.id),
                    no_ack_mode)

\* Base::H with Op::StepContinue (Hc)
Base_H_StepContinue(tid, any) ==
    CASE tid.k = "Any" ->
             IF any.err # NoErr
             THEN Err(any.err, <<>>, any.calls)
             ELSE set_resume_tid(WithId(any.tid), any.calls)
      [] tid.k = "All" -> set_resume_tid(IdAll, <<>>)
      [] tid.k = "WithId" -> set_resume_tid(WithId(tid.id), <<>>)

\* Base::H. kind is cmd.kind ("Other" for Hg, "StepContinue" for Hc), tid is
\* cmd.thread.tid (an IdKind); threads and r are the host's answer to
\* list_active_threads.
Base_H(kind, tid, threads, r) ==
    IF kind = "Other"
    THEN Base_H_Other(tid, get_sane_any_tid(threads, r))
    ELSE Base_H_StepContinue(tid, get_sane_any_tid(threads, r))

RECURSIVE ThreadList_CommaAfterEach(_, _)
\* The list_active_threads callback of Base::qfThreadInfo writing a comma
\* after every id.
ThreadList_CommaAfterEach(threads, first) ==
    IF threads = <<>>
    THEN <<>>
    ELSE <<write_specific_thread_id(WithId(FAKE_PID), WithId(Head(threads)))>>
         \o <<",">>
         \o ThreadList_CommaAfterEach(Tail(threads), FALSE)

RECURSIVE ThreadList(_, _)
\* The tokens the list_active_threads callback of Base::qfThreadInfo writes.
ThreadList(threads, first) ==
    IF threads = <<>>
    THEN <<>>
    ELSE Opt(~first, <<",">>)
         \o <<write_specific_thread_id(WithId(FAKE_PID), WithId(Head(threads)))>>
         \o ThreadList(Tail(threads), FALSE)

\* Base::qfThreadInfo
Base_qfThreadInfo(threads, r) ==
    IF ~Multi
    THEN Ok("Handled",
            <<"m", write_specific_thread_id(WithId(FAKE_PID),
                                            WithId(SINGLE_THREAD_TID))>>,
            <<>>)
    ELSE LET cs == <<Call("list_active_threads", 0, 0, 0)>>
             toks == <<"m">> \o ThreadList(threads, TRUE)
         IN  IF r # "Ok"
             THEN Err(Error("TargetError"), toks, cs)
             ELSE Ok("Handled", toks, cs)

\* Base::qsThreadInfo
Base_qsThreadInfo == Ok("Handled", <<"l">>, <<>>)

\* Base::T taking every thread of a single-thread target to be alive.
Base_T_SingleAlwaysAlive(tid, r, is_alive) ==
    IF tid.k # "WithId"
    THEN Err(Error("PacketUnexpected"), <<>>, <<>>)
    ELSE LET cs == IF Multi THEN <<Call("is_thread_alive", tid.id, 0, 0)>> ELSE <<>>
             alive == IF Multi THEN is_alive ELSE TRUE
         IN  IF Multi /\ r # "Ok"
             THEN Err(Error("TargetError"), <<>>, cs)
             ELSE IF alive
                  THEN Ok("NeedsOk", <<>>, cs)
                  ELSE Err(NonFatalError(1), <<>>, cs)

\* Base::T treating a dead thread as an unexpected packet.
Base_T_DeadIsFatal(tid, r, is_alive) ==
    IF tid.k # "WithId"
    THEN Err(Error("PacketUnexpected"), <<>>, <<>>)
    ELSE LET cs == IF Multi THEN <<Call("is_thread_alive", tid.id, 0, 0)>> ELSE <<>>
             alive == IF Multi THEN is_alive ELSE tid.id = SINGLE_THREAD_TID
         IN  IF Multi /\ r # "Ok"
             THEN Err(Error("TargetError"), <<>>, cs)
             ELSE IF alive
                  THEN Ok("NeedsOk", <<>>, cs)
                  ELSE Err(Error("PacketUnexpected"), <<>>, cs)

\* Base::T. tid is cmd.thread.tid; r and is_alive are the host's answer to
\* is_thread_alive.
Base_T(tid, r, is_alive) ==
    IF tid.k # "WithId"
    THEN Err(Error("PacketUnexpected"), <<>>, <<>>)
    ELSE LET cs == IF Multi THEN <<Call("is_thread_alive", tid.id, 0, 0)>> ELSE <<>>
             alive == IF Multi THEN is_alive ELSE tid.id = SINGLE_THREAD_TID
         IN  IF Multi /\ r # "Ok"
             THEN Err(Error("TargetError"), <<>>, cs)
             ELSE IF alive
                  THEN Ok("NeedsOk", <<>>, cs)
                  ELSE Err(NonFatalError(1), <<>>, cs)

(* ---------------------- handle_register_info -------------------------- *)

\* The host's get_register_info: Some(info) as <<info>>, None as <<>>.
get_register_info(n) ==
    IF n = 0 THEN <<"name:pc;bitsize:32;offset:0;">> ELSE <<>>

\* handle_register_info ending the enumeration with the empty response.
handle_register_info_NoneIsEmpty(n) ==
    IF ~Has("support_register_info")
    THEN Ok("Handled", <<>>, <<>>)
    ELSE LET info == get_register_info(n)
             cs == <<Call("get_register_info", 0, n, 0)>>
         IN  IF info # <<>>
             THEN Ok("Handled", <<info[1]>>, cs)
             ELSE Ok("Handled", <<>>, cs)

\* handle_register_info, for RegisterInfo::qRegisterInfo(n)
handle_register_info(n) ==
    IF ~Has("support_register_info")
    THEN Ok("Handled", <<>>, <<>>)
    ELSE LET info == get_register_info(n)
             cs == <<Call("get_register_info", 0, n, 0)>>
         IN  IF info # <<>>
             THEN Ok("Handled", <<info[1]>>, cs)
             ELSE Ok("NeedsOk", <<>>, cs)

(* ---------------------------- finish_exec ----------------------------- *)

\* A ThreadStopReason: [kind, tid, val, aux].
StopReason(kind, tid, val, aux) ==
    [kind |-> kind, tid |-> tid, val |-> val, aux |-> aux]

guard_reverse_exec == Has("support_reverse_cont") \/ Has("support_reverse_step")

\* guard_break asking only for the breakpoints extension.
guard_break_ParentOnly(op) == Has("support_breakpoints")

guard_break(op) == Has("support_breakpoints") /\ Has(op)

guard_catch_syscall == Has("support_catch_syscalls")

\* write_break_common selecting the thread for memory operations only.
write_break_common_MemOnly(tid, rest) ==
    Result("Handled", NoErr, NoReason,
           <<"T05", "thread:", write_specific_thread_id(WithId(FAKE_PID), WithId(tid)),
             ";">> \o rest,
           <<>>, tid, current_resume_tid, no_ack_mode)

\* write_break_common followed by the tokens rest: selects tid for memory and
\* resume operations, then writes the T05 thread prefix.
write_break_common(tid, rest) ==
    Result("Handled", NoErr, NoReason,
           <<"T05", "thread:", write_specific_thread_id(WithId(FAKE_PID), WithId(tid)),
             ";">> \o rest,
           <<>>, tid, WithId(tid), no_ack_mode)

\* The unguarded arms with Signal ending the session.
finish_exec_unguarded_SignalEnds(stop_reason) ==
    CASE stop_reason.kind = "DoneStep" -> Ok("Handled", <<"S05">>, <<>>)
      [] stop_reason.kind = "Signal" ->
             Disconnect(DisconnectReason("TargetTerminated", stop_reason.val),
                        <<"S", write_num(stop_reason.val)>>, <<>>)
      [] stop_reason.kind = "Exited" ->
             Disconnect(DisconnectReason("TargetExited", stop_reason.val),
                        <<"W", write_num(stop_reason.val)>>, <<>>)
      [] stop_reason.kind = "Terminated" ->
             Disconnect(DisconnectReason("TargetTerminated", stop_reason.val),
                        <<"X", write_num(stop_reason.val)>>, <<>>)

\* The unguarded arms with the W and X packet letters exchanged.
finish_exec_unguarded_SwappedWX(stop_reason) ==
    CASE stop_reason.kind = "DoneStep" -> Ok("Handled", <<"S05">>, <<>>)
      [] stop_reason.kind = "Signal" ->
             Ok("Handled", <<"S", write_num(stop_reason.val)>>, <<>>)
      [] stop_reason.kind = "Exited" ->
             Disconnect(DisconnectReason("TargetExited", stop_reason.val),
                        <<"X", write_num(stop_reason.val)>>, <<>>)
      [] stop_reason.kind = "Terminated" ->
             Disconnect(DisconnectReason("TargetTerminated", stop_reason.val),
                        <<"W", write_num(stop_reason.val)>>, <<>>)

\* The arms of finish_exec no capability guards: DoneStep, Signal, Exited and
\* Terminated.
finish_exec_unguarded(stop_reason) ==
    CASE stop_reason.kind = "DoneStep" -> Ok("Handled", <<"S05">>, <<>>)
      [] stop_reason.kind = "Signal" ->
             Ok("Handled", <<"S", write_num(stop_reason.val)>>, <<>>)
      [] stop_reason.kind = "Exited" ->
             Disconnect(DisconnectReason("TargetExited", stop_reason.val),
                        <<"W", write_num(stop_reason.val)>>, <<>>)
      [] stop_reason.kind = "Terminated" ->
             Disconnect(DisconnectReason("TargetTerminated", stop_reason.val),
                        <<"X", write_num(stop_reason.val)>>, <<>>)

\* The guarded arms of finish_exec, and the arm of the stop reasons whose
\* guard failed.
finish_exec_guarded(stop_reason) ==
    CASE stop_reason.kind = "SwBreak" /\ guard_break("support_sw_breakpoint") ->
             write_break_common(stop_reason.tid, <<"swbreak:;">>)
      [] stop_reason.kind = "HwBreak" /\ guard_break("support_hw_breakpoint") ->
             write_break_common(stop_reason.tid, <<"hwbreak:;">>)
      [] stop_reason.kind = "Watch" /\ guard_break("support_hw_watchpoint") ->
             write_break_common(
                 stop_reason.tid,
                 <<CASE stop_reason.aux = "Write" -> "watch:"
                     [] stop_reason.aux = "Read" -> "rwatch:"
                     [] stop_reason.aux = "ReadWrite" -> "awatch:",
                   write_num(stop_reason.val), ";">>)
      [] stop_reason.kind = "ReplayLog" /\ guard_reverse_exec ->
             Ok("Handled",
                <<"T05", "replaylog:",
                  IF stop_reason.aux = "Begin" THEN "begin" ELSE "end", ";">>,
                <<>>)
      [] stop_reason.kind = "CatchSyscall" /\ guard_catch_syscall ->
             Ok("Handled",
                <<"T05",
                  IF stop_reason.aux = "Entry" THEN "syscall_entry:"
                  ELSE "syscall_return:",
                  write_num(stop_reason.val), ";">>,
                <<>>)
      [] OTHER -> Err(Error("UnsupportedStopReason"), <<>>, <<>>)

\* finish_exec
finish_exec(stop_reason) ==
    IF stop_reason.kind \in {"DoneStep", "Signal", "Exited", "Terminated"}
    THEN finish_exec_unguarded(stop_reason)
    ELSE finish_exec_guarded(stop_reason)

(* ----------------------- the top-level driver ------------------------- *)

\* The payloads the driver frames and sends for a handler's result: the
\* tokens written, OK appended for NeedsOk and E<code> for a NonFatalError;
\* nothing while a stop reason is awaited, after a fatal error or after a
\* panic.
Flush(res) ==
    CASE res.status = "Handled" -> <<Wire(res.resp)>>
      [] res.status = "NeedsOk" -> <<Wire(res.resp \o <<"OK">>)>>
      [] res.status = "DeferredStopReason" -> <<>>
      [] res.status = "Disconnect" -> <<Wire(res.resp)>>
      [] res.status = "Err" /\ res.err.kind = "NonFatalError" ->
             <<Wire(res.resp \o <<"E", write_num(res.err.code)>>)>>
      [] OTHER -> <<>>

\* Where the session stands after a handler's result.
NextPc(res) ==
    CASE res.status \in {"Handled", "NeedsOk"} -> "handled"
      [] res.status = "DeferredStopReason" -> "running"
      [] res.status = "Disconnect" -> "disconnected"
      [] res.status = "Err" /\ res.err.kind = "NonFatalError" -> "handled"
      [] res.status = "Panic" -> "panicked"
      [] OTHER -> "error"

\* The ack bytes of one step: w, the '+' written for the packet received;
\* r, the '+' awaited for the response sent.
Acks(received, res) ==
    [w |-> IF received /\ ~no_ack_mode THEN 1 ELSE 0,
     r |-> IF Flush(res) # <<>> /\ ~res.noack THEN 1 ELSE 0]

\* The engine fields a handler may change.
Fields ==
    [mem |-> current_mem_tid, res |-> current_resume_tid, noack |-> no_ack_mode]

\* One turn of the driver: the event e was handled with result res.
DriveStep(e, res) ==
    /\ ev' = e
    /\ pre' = Fields
    /\ status' = res.status
    /\ err' = res.err
    /\ reason' = res.reason
    /\ resp' = res.resp
    /\ calls' = res.calls
    /\ current_mem_tid' = res.mem
    /\ current_resume_tid' = res.res
    /\ no_ack_mode' = res.noack
    /\ sent' = Flush(res)
    /\ acks' = Acks(e.type = "cmd", res)
    /\ pc' = NextPc(res)
    /\ UNCHANGED <<base_ops, caps>>

\* A turn of the driver that is no read of the target description.
Drive(e, res) == DriveStep(e, res) /\ UNCHANGED client

NoArg == [none |-> TRUE]
Cmd(kind, arg, host) == [type |-> "cmd", kind |-> kind, arg |-> arg, host |-> host]

\* A host call sequence of at most n calls: all succeed, or call number at
\* ends with the error r.
HostRuns(n, errors) ==
    {[at |-> 0, r |-> "Ok"]} \cup {[at |-> i, r |-> x] : i \in 1..n, x \in errors}

TargetErrors == TargetResults \ {"Ok"}

IdKinds == {IdAny, IdAll} \cup {WithId(t) : t \in Tids}

\* The thread lists a host reports: distinct threads, in any order.
ThreadLists ==
    {ts \in UNION {[1..n -> Tids] : n \in 0..MaxTid} :
        \A i, j \in DOMAIN ts : i # j => ts[i] # ts[j]}

\* The address the client writes and resumes at.
MemAddrs == {ArchUsizeMax - 1}

\* The addresses the client reads at: a low one, and one so close to the top
\* of the address space that a read in more than one chunk passes it.
ReadAddrs == {16} \cup MemAddrs

\* The optional resume address of a c or s packet.
NoAddr == [some |-> FALSE, addr |-> 0]
ResumeAddrs == {NoAddr} \cup {[some |-> TRUE, addr |-> a] : a \in MemAddrs}

\* The action lists of the vCont packets a session sends: none, one action, or
\* one action followed by the default continue.
ActionLists ==
    {<<>>} \cup {<<a>> : a \in VContActions}
    \cup {<<a>> \o new_continue(NoThread) : a \in VContActions}

\* The actions of the vCont packets in the specification of the resume
\* machine: every kind with an absent, an All and a concrete thread-id.
ListSelectors == {NoThread, IdAll, WithId(SINGLE_THREAD_TID), WithId(MaxTid)}

ListActions ==
    {Action(kd, 0, th, 0, 0, TRUE) : kd \in {"Continue", "Step"}, th \in ListSelectors}
    \cup {Action("RangeStep", 0, th, 16, 32, TRUE) : th \in ListSelectors}
    \cup {Action("RangeStep", 0, WithId(SINGLE_THREAD_TID), 16, 32, FALSE),
          Action("ContinueWithSig", SIGINT, WithId(MaxTid), 0, 0, TRUE),
          Action("StepWithSig", SIGINT, NoThread, 0, 0, TRUE),
          Action("Stop", 0, NoThread, 0, 0, TRUE),
          Action("Malformed", 0, NoThread, 0, 0, TRUE)}

\* Every list of at most MaxActions of them.
FullActionLists == UNION {[1..n -> ListActions] : n \in 0..MaxActions}

\* The hosts of the specification of the resume machine: every combination of
\* the two optional resume capabilities.
ResumeProfiles == SUBSET {"support_single_step", "support_range_step"}

(* ------------------------------ commands ------------------------------ *)

\* The lengths a qXfer:features:read asks for: none, up to a byte more than
\* the packet buffer holds, and the largest a packet can name.
XferLengths == (0..(PacketBufLen + 1)) \cup {UsizeMax}

\* A build with overflow checks differs from one without only where the
\* handler panics.
Checked(overflow_checks, res) == overflow_checks => res.status = "Panic"

Do_qSupported ==
    /\ pc = "idle"
    /\ Drive(Cmd("qSupported", NoArg, NoArg), Base_qSupported(PacketBufLen))

Do_QStartNoAckMode ==
    /\ pc = "idle"
    /\ Drive(Cmd("QStartNoAckMode", NoArg, NoArg), Base_QStartNoAckMode)

Do_qXferFeaturesRead ==
    /\ pc = "idle"
    /\ \E offset \in 0..(Len(StaticXml) - 1), length \in XferLengths,
          overflow_checks \in BOOLEAN :
       \E h \in IF Has("support_target_description_xml_override")
                THEN {[r |-> "Ok", ret |-> n] : n \in 0..(PacketBufLen + 1)}
                     \cup {[r |-> x, ret |-> 0] : x \in TargetErrors}
                ELSE {[r |-> "Ok", ret |-> 0]} :
          LET res == Base_qXferFeaturesRead(offset, length, PacketBufLen, h.r, h.ret,
                                            overflow_checks)
          IN  /\ Checked(overflow_checks, res)
              /\ Drive(Cmd("qXferFeaturesRead",
                           [offset |-> offset, length |-> length], h),
                       res)

Do_QuestionMark ==
    /\ pc = "idle"
    /\ Drive(Cmd("QuestionMark", NoArg, NoArg), Base_QuestionMark)

Do_qAttached ==
    /\ pc = "idle"
    /\ \E pid \in {0, FAKE_PID} :
       \E h \in IF Has("support_extended_mode") /\ pid # 0
                THEN {[r |-> "Ok", attached |-> b] : b \in BOOLEAN}
                     \cup {[r |-> x, attached |-> FALSE] : x \in TargetErrors}
                ELSE {[r |-> "Ok", attached |-> FALSE]} :
          Drive(Cmd("qAttached", [pid |-> pid], h), Base_qAttached(pid, h.r, h.attached))

Do_g ==
    /\ pc = "idle"
    /\ \E r \in TargetResults :
          Drive(Cmd("g", NoArg, [r |-> r]), Base_g(r))

Do_G ==
    /\ pc = "idle"
    /\ \E accepted \in BOOLEAN :
       \E r \in IF accepted THEN TargetResults ELSE {"Ok"} :
          Drive(Cmd("G", [accepted |-> accepted], [r |-> r]), Base_G(accepted, r))

Do_m ==
    /\ pc = "idle"
    /\ \E addr_ok \in BOOLEAN, addr \in ReadAddrs, len \in 0..MaxMemLen,
          overflow_checks \in BOOLEAN :
       \E h \in IF addr_ok
                THEN HostRuns((len + PacketBufLen - 1) \div PacketBufLen, TargetErrors)
                ELSE HostRuns(0, {}) :
          LET res == Base_m(addr_ok, addr, len, PacketBufLen, h.at, h.r,
                            overflow_checks)
          IN  /\ Checked(overflow_checks, res)
              /\ h.at = 0 \/ (h.at = Len(res.calls) /\ res.status = "Err")
              /\ Drive(Cmd("m", [addr_ok |-> addr_ok, addr |-> addr, len |-> len], h),
                       res)

Do_M ==
    /\ pc = "idle"
    /\ \E addr_ok \in BOOLEAN, addr \in MemAddrs, len \in 0..MaxMemLen :
       \E r \in IF addr_ok THEN TargetResults ELSE {"Ok"} :
          Drive(Cmd("M", [addr_ok |-> addr_ok, addr |-> addr, len |-> len],
                    [r |-> r]),
                Base_M(addr_ok, addr, len, r))

Do_k ==
    /\ pc = "idle"
    /\ \E kind \in {"k", "vKill"} :
       \E h \in IF Has("support_extended_mode")
                THEN {[r |-> "Ok", should_terminate |-> b] : b \in BOOLEAN}
                     \cup {[r |-> x, should_terminate |-> FALSE] : x \in TargetErrors}
                ELSE {[r |-> "Ok", should_terminate |-> FALSE]} :
          LET pid == IF kind = "vKill" THEN FAKE_PID ELSE 0
          IN  Drive(Cmd(kind, [pid |-> pid], h), Base_k(pid, h.r, h.should_terminate))

Do_D ==
    /\ pc = "idle"
    /\ Drive(Cmd("D", NoArg, NoArg), Base_D)

Do_vCont_Query ==
    /\ pc = "idle"
    /\ Drive(Cmd("vCont?", NoArg, NoArg), Base_vCont_Query)

\* The host calls a resume command can reach.
ResumeRuns(n) == HostRuns(IF Multi THEN n + 2 ELSE 1, {"Fatal"})

\* A host run counts only if the handler got as far as the failing call.
Reaches(h, res) == h.at = 0 \/ (h.at = Len(res.calls) /\ res.err.kind = "TargetError")

Do_vCont_Actions ==
    /\ pc = "idle"
    /\ \E actions \in ActionLists :
       \E h \in ResumeRuns(Len(actions)) :
          LET res == Base_vCont_Actions(actions, h.at, h.r)
          IN  /\ Reaches(h, res)
              /\ Drive(Cmd("vCont", [actions |-> actions], h), res)

\* A vCont packet with any action list.
Do_vCont_List ==
    /\ pc = "idle"
    /\ \E actions \in FullActionLists :
       \E h \in ResumeRuns(Len(actions)) :
          LET res == Base_vCont_Actions(actions, h.at, h.r)
          IN  /\ Reaches(h, res)
              /\ Drive(Cmd("vCont", [actions |-> actions], h), res)

Do_c ==
    /\ pc = "idle"
    /\ \E addr \in ResumeAddrs :
       \E h \in ResumeRuns(1) :
          LET res == Base_c(addr, h.at, h.r)
          IN  /\ Reaches(h, res)
              /\ Drive(Cmd("c", [addr |-> addr], h), res)

Do_s ==
    /\ pc = "idle"
    /\ \E addr \in ResumeAddrs :
       \E h \in ResumeRuns(1) :
          LET res == Base_s(addr, h.at, h.r)
          IN  /\ Reaches(h, res)
              /\ Drive(Cmd("s", [addr |-> addr], h), res)

Do_H ==
    /\ pc = "idle"
    /\ \E kind \in {"Other", "StepContinue"}, tid \in IdKinds :
       \E h \in IF Multi /\ tid.k = "Any"
                THEN {[r |-> "Ok", threads |-> ts] : ts \in ThreadLists}
                     \cup {[r |-> "Fatal", threads |-> <<>>]}
                ELSE {[r |-> "Ok", threads |-> <<>>]} :
          Drive(Cmd("H", [kind |-> kind, tid |-> tid], h),
                Base_H(kind, tid, h.threads, h.r))

Do_qfThreadInfo ==
    /\ pc = "idle"
    /\ \E h \in IF Multi
                THEN {[r |-> x, threads |-> ts] : x \in PlainResults, ts \in ThreadLists}
                ELSE {[r |-> "Ok", threads |-> <<>>]} :
          Drive(Cmd("qfThreadInfo", NoArg, h), Base_qfThreadInfo(h.threads, h.r))

Do_qsThreadInfo ==
    /\ pc = "idle"
    /\ Drive(Cmd("qsThreadInfo", NoArg, NoArg), Base_qsThreadInfo)

Do_T ==
    /\ pc = "idle"
    /\ \E tid \in IdKinds :
       \E h \in IF Multi /\ tid.k = "WithId"
                THEN {[r |-> "Ok", alive |-> b] : b \in BOOLEAN}
                     \cup {[r |-> "Fatal", alive |-> FALSE]}
                ELSE {[r |-> "Ok", alive |-> FALSE]} :
          Drive(Cmd("T", [tid |-> tid], h), Base_T(tid, h.r, h.alive))

Do_qRegisterInfo ==
    /\ pc = "idle"
    /\ \E n \in 0..MaxRegNum :
          Drive(Cmd("qRegisterInfo", [n |-> n], NoArg), handle_register_info(n))

\* A packet no handler claims is answered with the empty response.
Do_Unknown ==
    /\ pc = "idle"
    /\ Drive(Cmd("unknown", NoArg, NoArg), Ok("Handled", <<>>, <<>>))

NoEvent == [type |-> "none", kind |-> "none", arg |-> NoArg, host |-> NoArg]

\* The driver turns to the next packet with a fresh response writer.
NextPacket ==
    /\ pc = "handled"
    /\ pc' = "idle"
    /\ pre' = Fields
    /\ ev' = NoEvent
    /\ status' = "Handled"
    /\ err' = NoErr
    /\ reason' = NoReason
    /\ resp' = <<>>
    /\ sent' = <<>>
    /\ acks' = [w |-> 0, r |-> 0]
    /\ calls' = <<>>
    /\ UNCHANGED <<base_ops, caps, no_ack_mode, current_mem_tid, current_resume_tid,
                   client>>

(* ----------------------------- event loop ----------------------------- *)

StopReasons ==
    {StopReason("DoneStep", 0, 0, "")}
    \cup {StopReason("Signal", 0, sig, "") : sig \in Signals}
    \cup {StopReason("Exited", 0, code, "") : code \in ExitCodes}
    \cup {StopReason("Terminated", 0, sig, "") : sig \in Signals}
    \cup {StopReason(kd, t, 0, "") : kd \in {"SwBreak", "HwBreak"}, t \in Tids}
    \cup {StopReason("Watch", t, a, wk) :
            t \in Tids, a \in MemAddrs, wk \in {"Write", "Read", "ReadWrite"}}
    \cup {StopReason("ReplayLog", 0, 0, pos) : pos \in {"Begin", "End"}}
    \cup {StopReason("CatchSyscall", 0, 60, pos) : pos \in {"Entry", "Return"}}

\* wait_for_stop_reason yields TargetStopped(stop_reason).
TargetStopped ==
    /\ pc = "running"
    /\ \E stop_reason \in StopReasons :
          Drive([type |-> "stop", kind |-> stop_reason.kind, arg |-> stop_reason,
                 host |-> NoArg],
                finish_exec(stop_reason))

\* on_interrupt reporting the target as terminated by the interrupt.
on_interrupt_Terminated == StopReason("Terminated", 0, SIGINT, "")

\* EmuGdbEventLoop::on_interrupt
on_interrupt == StopReason("Signal", 0, SIGINT, "")

\* wait_for_stop_reason yields IncomingData(0x03): the interrupt is reported
\* as the stop reason on_interrupt gives.
Interrupt ==
    /\ pc = "running"
    /\ Drive([type |-> "interrupt", kind |-> on_interrupt.kind, arg |-> on_interrupt,
              host |-> NoArg],
             finish_exec(on_interrupt))

\* The transport fails: the session ends with a Connection error.
ConnectionFailure ==
    /\ pc \in {"idle", "running"}
    /\ Drive([type |-> "conn", kind |-> "Connection", arg |-> NoArg, host |-> NoArg],
             Err(Error("Connection"), <<>>, <<>>))

(* --------------------------- specification ---------------------------- *)

\* A debugger that has not read any of the target description.
FreshClient == [offset |-> 0, got |-> <<>>, requests |-> 0, done |-> FALSE]

Init ==
    /\ base_ops \in {"SingleThread", "MultiThread"}
    /\ caps \in HostProfiles
    /\ no_ack_mode = FALSE
    /\ current_mem_tid = SINGLE_THREAD_TID
    /\ current_resume_tid = IdAll
    /\ pc = "idle"
    /\ pre = Fields
    /\ ev = NoEvent
    /\ status = "Handled"
    /\ err = NoErr
    /\ reason = NoReason
    /\ resp = <<>>
    /\ sent = <<>>
    /\ acks = [w |-> 0, r |-> 0]
    /\ calls = <<>>
    /\ client = FreshClient

Next ==
    \/ Do_qSupported
    \/ Do_QStartNoAckMode
    \/ Do_qXferFeaturesRead
    \/ Do_QuestionMark
    \/ Do_qAttached
    \/ Do_g
    \/ Do_G
    \/ Do_m
    \/ Do_M
    \/ Do_k
    \/ Do_D
    \/ Do_vCont_Query
    \/ Do_vCont_Actions
    \/ Do_c
    \/ Do_s
    \/ Do_H
    \/ Do_qfThreadInfo
    \/ Do_qsThreadInfo
    \/ Do_T
    \/ Do_qRegisterInfo
    \/ Do_Unknown
    \/ NextPacket
    \/ TargetStopped
    \/ Interrupt
    \/ ConnectionFailure

Spec == Init /\ [][Next]_vars

\* The resume machine alone: vCont packets with any action list, over hosts
\* with any of the resume capabilities, and the stops that follow.
InitVCont ==
    /\ base_ops \in {"SingleThread", "MultiThread"}
    /\ caps \in ResumeProfiles
    /\ no_ack_mode = FALSE
    /\ current_mem_tid = SINGLE_THREAD_TID
    /\ current_resume_tid = IdAll
    /\ pc = "idle"
    /\ pre = Fields
    /\ ev = NoEvent
    /\ status = "Handled"
    /\ err = NoErr
    /\ reason = NoReason
    /\ resp = <<>>
    /\ sent = <<>>
    /\ acks = [w |-> 0, r |-> 0]
    /\ calls = <<>>
    /\ client = FreshClient

NextVCont ==
    \/ Do_vCont_List
    \/ NextPacket
    \/ TargetStopped
    \/ Interrupt

SpecVCont == InitVCont /\ [][NextVCont]_vars

\* Resuming, stopping and asking why: the legacy c packet, the stops and
\* interrupts that follow it, and the ? packet. No packet of this
\* specification selects a thread, so a thread is selected only by a stop.
NextStops ==
    \/ Do_c
    \/ Do_QuestionMark
    \/ NextPacket
    \/ TargetStopped
    \/ Interrupt

SpecStops == Init /\ [][NextStops]_vars

\* The bytes a binary payload stands for, as the debugger decodes it: the
\* bytes of the description's alphabet that write_binary gives this text for.
Unescape(text) ==
    LET alphabet == {StaticXml[i] : i \in DOMAIN StaticXml}
    IN  CHOOSE bytes \in UNION {[1..k -> alphabet] : k \in 0..PacketBufLen} :
            write_binary(bytes) = text

\* The debugger reads the static target description window by window: each
\* request asks for some positive number of bytes at the offset reached, an m
\* reply moves the offset on by the bytes it carries, an l reply ends the
\* reading, and a stub that panics gives no reply.
Client_Read ==
    /\ pc = "idle"
    /\ ~client.done
    /\ \E length \in XferLengths \ {0}, overflow_checks \in BOOLEAN :
          LET res == Base_qXferFeaturesRead(client.offset, length, PacketBufLen,
                                            "Ok", 0, overflow_checks)
              more == res.status = "Handled" /\ res.resp[1] = "m"
              data == IF more THEN Unescape(res.resp[2]) ELSE <<>>
          IN  /\ Checked(overflow_checks, res)
              /\ DriveStep(Cmd("qXferFeaturesRead",
                                [offset |-> client.offset, length |-> length],
                                [r |-> "Ok", ret |-> 0]),
                            res)
              /\ client' = [offset |-> client.offset + Len(data),
                            got |-> client.got \o data,
                            requests |-> client.requests + 1,
                            done |-> res.status = "Handled" /\ ~more]

\* A host that serves the static XML of its architecture.
InitXfer ==
    /\ Init
    /\ Has("target_description_xml")
    /\ ~Has("support_target_description_xml_override")

\* The start of a session: the feature negotiation, the switch to no-ack
\* mode, and the reading of the target description.
NextXfer ==
    \/ Do_qSupported
    \/ Do_QStartNoAckMode
    \/ Client_Read
    \/ NextPacket

\* The debugger keeps reading until it is told the end, and the driver
\* always turns to the next packet.
SpecXfer ==
    InitXfer /\ [][NextXfer]_vars /\ SF_vars(Client_Read) /\ WF_vars(NextPacket)

(* ------------------------------- claims ------------------------------- *)

IsCmd(kinds) == ev.type = "cmd" /\ ev.kind \in kinds
IsStop(kinds) == ev.type \in {"stop", "interrupt"} /\ ev.kind \in kinds

ResumeKinds == {"vCont", "c", "s"}
DisconnectKinds == {"k", "vKill", "D"}

FatalErr == status = "Err" /\ err.kind # "NonFatalError"

\* C1 (resume deferral): a resume command (vCont with actions, c, s) the
\* dispatcher accepts writes no response token and returns DeferredStopReason,
\* nothing is sent for it, and the session then awaits a stop reason; while it
\* waits, the last thing handled is that resume command and nothing was sent
\* since; the stop report that ends the wait sends at most the one stop packet.
C1_ResumeDeferral ==
    /\ (IsCmd(ResumeKinds) /\ status # "Err") =>
           /\ status = "DeferredStopReason"
           /\ resp = <<>>
           /\ sent = <<>>
           /\ pc = "running"
    /\ pc = "running" => (IsCmd(ResumeKinds) /\ sent = <<>> /\ resp = <<>>)
    /\ status = "DeferredStopReason" => IsCmd(ResumeKinds)
    /\ ev.type \in {"stop", "interrupt"} =>
           (Len(sent) <= 1 /\ (sent # <<>> => sent[1] = Wire(resp)))

\* A legacy s command was accepted on a host with single-step support: the
\* session awaits the stop reason and nothing was sent.
C1_Witness ==
    /\ pc = "running"
    /\ IsCmd({"s"})
    /\ calls # <<>>
    /\ calls[Len(calls)].op \in {"step", "resume"}

\* C2 (exactly one response): a dispatched command that is neither a resume
\* command nor k / vKill / D, and after which a next packet is read (it ends
\* the session neither with a fatal error nor with a panic), is answered by
\* exactly one framed response before the next packet is read: the tokens the
\* handler wrote (possibly none: the empty response), exactly OK when the
\* handler asked for it, or the tokens followed by E<code>.
C2_ExactlyOneResponse ==
    (/\ ev.type = "cmd"
     /\ ev.kind \notin (ResumeKinds \cup DisconnectKinds)
     /\ ~FatalErr
     /\ status # "Panic") =>
        /\ pc = "handled"
        /\ Len(sent) = 1
        /\ (status = "Handled" => sent[1] = Wire(resp))
        /\ (status = "NeedsOk" => sent[1] = "OK")
        /\ (status = "Err" => sent[1] = Wire(resp) \o "E" \o write_num(err.code))
        /\ status \in {"Handled", "NeedsOk", "Err"}

\* An M command was answered with OK, a qRegisterInfo on a host without the
\* capability with the empty response.
C2_Witness ==
    \/ (IsCmd({"M"}) /\ sent = <<"OK">>)
    \/ (IsCmd({"qRegisterInfo"}) /\ sent = <<"">> /\ Multi)

\* C3 (memory thread is concrete): current_mem_tid is always a thread id,
\* never the All selector, and an Hg command naming All fails with
\* PacketUnexpected, ends the session, sends nothing and leaves
\* current_mem_tid and current_resume_tid as they were.
C3_MemTidNeverAll ==
    /\ current_mem_tid \in Tids
    /\ (IsCmd({"H"}) /\ ev.arg.kind = "Other" /\ ev.arg.tid = IdAll) =>
           /\ status = "Err"
           /\ err = Error("PacketUnexpected")
           /\ pc = "error"
           /\ sent = <<>>
           /\ calls = <<>>
           /\ current_mem_tid = pre.mem
           /\ current_resume_tid = pre.res

\* Hg-1 was rejected after an earlier Hc and Hg had moved both selections.
C3_Witness ==
    /\ IsCmd({"H"})
    /\ ev.arg.kind = "Other"
    /\ ev.arg.tid = IdAll
    /\ pc = "error"
    /\ current_mem_tid # SINGLE_THREAD_TID
    /\ current_resume_tid # IdAll

\* What every step keeps of the ack mode: no_ack_mode is never set back to
\* false; it becomes true only by a QStartNoAckMode command, which always sets
\* it; a step taken with no_ack_mode set neither writes a '+' for the packet
\* received nor awaits one for the response sent.
AckModeStep ==
    /\ pre.noack => no_ack_mode
    /\ (no_ack_mode /\ ~pre.noack) => (IsCmd({"QStartNoAckMode"}) /\ status = "NeedsOk")
    /\ IsCmd({"QStartNoAckMode"}) => (no_ack_mode /\ sent = <<"OK">>)
    /\ pre.noack => acks = [w |-> 0, r |-> 0]
    /\ no_ack_mode => acks.r = 0

\* C4 (ack-mode monotonicity): no_ack_mode starts false, becomes true only by
\* handling QStartNoAckMode and is never set back to false by a later command
\* or stop report; once it is set, no '+' is written or awaited.
C4_AckModeMonotonic == ~no_ack_mode /\ []AckModeStep

\* A second QStartNoAckMode was handled with no-ack mode already on.
C4_Witness ==
    /\ IsCmd({"QStartNoAckMode"})
    /\ pre.noack
    /\ no_ack_mode
    /\ sent = <<"OK">>

\* The feature tokens of the qSupported reply after its fixed prefix, each with
\* the host capability it stands for.
FeatureCaps ==
    {<<";ReverseContinue+", Has("support_reverse_cont")>>,
     <<";ReverseStep+", Has("support_reverse_step")>>,
     <<";QDisableRandomization+", Has("support_configure_aslr")>>,
     <<";QEnvironmentHexEncoded+", Has("support_configure_env")>>,
     <<";QEnvironmentUnset+", Has("support_configure_env")>>,
     <<";QEnvironmentReset+", Has("support_configure_env")>>,
     <<";QStartupWithShell+", Has("support_configure_startup_shell")>>,
     <<";QSetWorkingDir+", Has("support_configure_working_dir")>>,
     <<";swbreak+", Has("support_sw_breakpoint")>>,
     <<";hwbreak+", Has("support_hw_breakpoint")>>,
     <<";QCatchSyscalls+", Has("support_catch_syscalls")>>,
     <<";qXfer:features:read+",
       Has("target_description_xml") \/ Has("support_target_description_xml_override")>>,
     <<";qXfer:memory-map:read+", Has("support_memory_map")>>,
     <<";qXfer:exec-file:read+", Has("support_exec_file")>>,
     <<";qXfer:auxv:read+", Has("support_auxv")>>}

\* C5 (qSupported advertises what the host exposes): the reply begins
\* PacketSize=<hex buffer size>;vContSupported+;multiprocess+;QStartNoAckMode+,
\* and each optional feature appears in it if and only if the host has the
\* capability the feature stands for: swbreak+ for software breakpoints,
\* hwbreak+ for hardware breakpoints, and so on.
C5_AdvertisesOnlyPresent ==
    IsCmd({"qSupported"}) =>
        /\ status = "Handled"
        /\ Len(sent) = 1
        /\ sent[1] = Wire(resp)
        /\ Len(resp) >= 5
        /\ Wire(SubSeq(resp, 1, 5)) =
               "PacketSize=" \o write_num(PacketBufLen)
               \o ";vContSupported+;multiprocess+;QStartNoAckMode+"
        /\ \A f \in FeatureCaps : Contains(resp, f[1]) <=> f[2]
        /\ \A i \in 6..Len(resp) : \E f \in FeatureCaps : resp[i] = f[1]

\* C5 as the code has it: the same reply, with hwbreak+ advertised by a host
\* that has hardware breakpoints or hardware watchpoints.
C5_AsImplemented ==
    IsCmd({"qSupported"}) =>
        /\ status = "Handled"
        /\ Len(sent) = 1
        /\ sent[1] = Wire(resp)
        /\ Len(resp) >= 5
        /\ Wire(SubSeq(resp, 1, 5)) =
               "PacketSize=" \o write_num(PacketBufLen)
               \o ";vContSupported+;multiprocess+;QStartNoAckMode+"
        /\ \A f \in FeatureCaps :
               Contains(resp, f[1]) <=>
                   IF f[1] = ";hwbreak+"
                   THEN Has("support_hw_breakpoint") \/ Has("support_hw_watchpoint")
                   ELSE f[2]
        /\ \A i \in 6..Len(resp) : \E f \in FeatureCaps : resp[i] = f[1]

\* A host with hardware watchpoints and no hardware breakpoints was sent
\* qSupported and its reply carries hwbreak+.
C5_Witness ==
    /\ IsCmd({"qSupported"})
    /\ Has("support_hw_watchpoint")
    /\ ~Has("support_hw_breakpoint")
    /\ Contains(resp, ";hwbreak+")

\* C6 (capability gating): every host operation a handler invoked belongs to
\* the base-ops variant and to a capability the host has: step and
\* set_resume_action_step need single-step support, resume_range_step and
\* set_resume_action_range_step range-step support, the target-description
\* reader the override, get_register_info register-info support, kill and
\* query_if_attached extended mode. A step or range step is accepted only when
\* vCont? lists it, and qXferFeaturesRead is served exactly when qSupported
\* advertises qXfer:features:read+.
C6_CapabilityGating ==
    /\ \A i \in 1..Len(calls) :
          LET op == calls[i].op
          IN  /\ op \in {"step", "set_resume_action_step"} => Has("support_single_step")
              /\ op \in {"resume_range_step", "set_resume_action_range_step"} =>
                     Has("support_range_step")
              /\ op = "target_description_xml" =>
                     Has("support_target_description_xml_override")
              /\ op = "get_register_info" => Has("support_register_info")
              /\ op \in {"kill", "query_if_attached"} => Has("support_extended_mode")
              /\ op \in {"step", "resume_range_step"} => ~Multi
              /\ op \in {"set_resume_action_step", "set_resume_action_range_step",
                         "set_resume_action_continue", "clear_resume_actions",
                         "list_active_threads", "is_thread_alive"} => Multi
    /\ (IsCmd({"s"}) /\ status = "DeferredStopReason") =>
           Contains(Base_vCont_Query.resp, ";s;S")
    /\ (IsCmd({"vCont"}) /\ status = "DeferredStopReason"
          /\ ev.arg.actions # <<>> /\ ~Multi) =>
           /\ ev.arg.actions[1].kind \in {"Step", "StepWithSig"} =>
                  Contains(Base_vCont_Query.resp, ";s;S")
           /\ ev.arg.actions[1].kind = "RangeStep" =>
                  Contains(Base_vCont_Query.resp, ";r")
    /\ IsCmd({"qXferFeaturesRead"}) =>
           (err = Error("PacketUnexpected")
              <=> ~Contains(Base_qSupported(PacketBufLen).resp, ";qXfer:features:read+"))

\* An s command reached the host's step on a host with single-step support.
C6_Witness ==
    /\ IsCmd({"s"})
    /\ calls # <<>>
    /\ calls[Len(calls)].op = "step"
    /\ status = "DeferredStopReason"

\* C7 (how a session ends with a DisconnectReason): the session is
\* disconnected exactly when the last handler returned Disconnect, and that
\* was a D command with reason Disconnect, a k or vKill command with reason
\* Kill, or a reported Exited(code) / Terminated(sig) stop with reason
\* TargetExited(code) / TargetTerminated(sig); nothing else carries a reason.
C7_DisconnectOnlyBy ==
    /\ (pc = "disconnected") <=> (status = "Disconnect")
    /\ status = "Disconnect" =>
           \/ (IsCmd({"D"}) /\ reason = DisconnectReason("Disconnect", 0))
           \/ (IsCmd({"k", "vKill"}) /\ reason = DisconnectReason("Kill", 0))
           \/ (ev.type = "stop" /\ ev.kind = "Exited"
                 /\ reason = DisconnectReason("TargetExited", ev.arg.val))
           \/ (ev.type = "stop" /\ ev.kind = "Terminated"
                 /\ reason = DisconnectReason("TargetTerminated", ev.arg.val))
    /\ status # "Disconnect" => reason = NoReason
    /\ IsStop({"DoneStep", "Signal", "SwBreak", "HwBreak", "Watch", "ReplayLog",
               "CatchSyscall"}) => status # "Disconnect"

\* The target reported Exited and the session ended with TargetExited.
C7_Witness ==
    /\ pc = "disconnected"
    /\ ev.type = "stop"
    /\ ev.kind = "Exited"
    /\ reason.kind = "TargetExited"

\* C8 (error propagation): a handler's NonFatalError(code) is answered with
\* the one response E<hex code> and the session goes on to the next packet;
\* an error of any other kind is one of the fatal kinds, sends nothing and
\* ends the session, after which no step is possible. A T command for a dead
\* thread is the non-fatal E01; an Hg command naming All is fatal.
C8_ErrorPropagation ==
    /\ (status = "Err" /\ err.kind = "NonFatalError") =>
           /\ pc = "handled"
           /\ sent = <<Wire(resp) \o "E" \o write_num(err.code)>>
           /\ ENABLED NextPacket
    /\ (status = "Err" /\ err.kind # "NonFatalError") =>
           /\ err.kind \in FatalKinds
           /\ pc = "error"
           /\ sent = <<>>
    /\ (pc = "error") <=> (status = "Err" /\ err.kind \in FatalKinds)
    /\ pc = "error" => ~ENABLED Next
    /\ (IsCmd({"T"}) /\ ev.arg.tid.k = "WithId" /\ ev.host.r = "Ok"
          /\ (IF Multi THEN ~ev.host.alive ELSE ev.arg.tid.id # SINGLE_THREAD_TID)) =>
           /\ err = NonFatalError(1)
           /\ sent = <<"E01">>
    /\ (IsCmd({"H"}) /\ ev.arg.kind = "Other" /\ ev.arg.tid = IdAll) => pc = "error"

\* A T command for a dead thread was answered E01 and the session goes on.
C8_Witness ==
    /\ IsCmd({"T"})
    /\ Multi
    /\ sent = <<"E01">>
    /\ pc = "handled"

\* The capability a guarded stop reason needs.
StopCapability(kind) ==
    CASE kind = "SwBreak" -> Has("support_breakpoints") /\ Has("support_sw_breakpoint")
      [] kind = "HwBreak" -> Has("support_breakpoints") /\ Has("support_hw_breakpoint")
      [] kind = "Watch" -> Has("support_breakpoints") /\ Has("support_hw_watchpoint")
      [] kind = "ReplayLog" ->
             Has("support_reverse_cont") \/ Has("support_reverse_step")
      [] kind = "CatchSyscall" -> Has("support_catch_syscalls")

GuardedStops == {"SwBreak", "HwBreak", "Watch", "ReplayLog", "CatchSyscall"}

\* C9 (unsupported stop reasons): a reported SwBreak, HwBreak, Watch,
\* ReplayLog or CatchSyscall whose capability the host lacks fails with the
\* fatal UnsupportedStopReason, writes and sends nothing, and leaves
\* current_mem_tid and current_resume_tid as they were; with the capability
\* the stop is reported as a T05 packet.
C9_UnsupportedStopReason ==
    IsStop(GuardedStops) =>
        IF StopCapability(ev.kind)
        THEN /\ status = "Handled"
             /\ Len(sent) = 1
             /\ resp[1] = "T05"
        ELSE /\ status = "Err"
             /\ err = Error("UnsupportedStopReason")
             /\ pc = "error"
             /\ resp = <<>>
             /\ sent = <<>>
             /\ calls = <<>>
             /\ current_mem_tid = pre.mem
             /\ current_resume_tid = pre.res

\* A Watch stop was reported by a host that has breakpoints but no hardware
\* watchpoints, for a thread other than the selected one.
C9_Witness ==
    /\ IsStop({"Watch"})
    /\ Has("support_breakpoints")
    /\ err.kind = "UnsupportedStopReason"
    /\ ev.arg.tid # current_mem_tid

\* The two lower-hex digits of the signals and exit codes of the model.
HexOf(n) ==
    CASE n = 0 -> "00"
      [] n = 1 -> "01"
      [] n = SIGINT -> "02"
      [] n = SIGTRAP -> "05"
      [] n = SIGSTOP -> "11"
      [] n = 255 -> "ff"

\* C10 (plain and terminal stops): whatever capabilities the host has,
\* DoneStep is reported as S05 and Signal(sig) as S<hex sig>, and the session
\* goes on; Exited(code) is reported as W<hex code> and ends the session with
\* TargetExited(code); Terminated(sig) is reported as X<hex sig> and ends it
\* with TargetTerminated(sig).
C10_PlainStopEncoding ==
    /\ IsStop({"DoneStep"}) =>
           (sent = <<"S05">> /\ status = "Handled" /\ pc = "handled")
    /\ IsStop({"Signal"}) =>
           /\ sent = <<"S" \o HexOf(ev.arg.val)>>
           /\ status = "Handled"
           /\ pc = "handled"
    /\ IsStop({"Exited"}) =>
           /\ sent = <<"W" \o HexOf(ev.arg.val)>>
           /\ status = "Disconnect"
           /\ reason = DisconnectReason("TargetExited", ev.arg.val)
           /\ pc = "disconnected"
    /\ IsStop({"Terminated"}) =>
           /\ sent = <<"X" \o HexOf(ev.arg.val)>>
           /\ status = "Disconnect"
           /\ reason = DisconnectReason("TargetTerminated", ev.arg.val)
           /\ pc = "disconnected"
    /\ IsStop({"DoneStep", "Signal", "Exited", "Terminated"}) =>
           (current_mem_tid = pre.mem /\ current_resume_tid = pre.res)

\* Terminated(SIGSTOP) was reported as X11 by a host with no optional
\* capability.
C10_Witness ==
    /\ IsStop({"Terminated"})
    /\ sent = <<"X11">>
    /\ caps = {}
    /\ reason = DisconnectReason("TargetTerminated", SIGSTOP)

\* The action list of the vCont packet just handled.
PacketActions == ev.arg.actions

\* A Step or RangeStep action that names no concrete thread.
DefaultStep(a) ==
    a.kind \in {"Step", "StepWithSig", "RangeStep"} /\ a.thread.k \in {"None", "All"}

\* An action the multi-thread loop passes: a Continue, or a Step or RangeStep
\* of a concrete thread the host can perform.
Installable(a) ==
    \/ a.kind \in {"Continue", "ContinueWithSig"}
    \/ a.kind \in {"Step", "StepWithSig"} /\ a.thread.k = "WithId"
         /\ Has("support_single_step")
    \/ a.kind = "RangeStep" /\ a.thread.k = "WithId" /\ a.dec
         /\ Has("support_range_step")

CalledOps == {calls[i].op : i \in 1..Len(calls)}

\* C11 (step as a default action): on a multi-thread target a vCont packet
\* with a Step or RangeStep action whose thread-id is absent or All fails
\* fatally: nothing is written or sent, the session ends and resume is not
\* called; when the actions before it are passed and the host does not fail,
\* the error is the protocol error PacketUnexpected, with or without the
\* host's step capability.
C11_DefaultStepIsFatal ==
    (IsCmd({"vCont"}) /\ Multi) =>
        \A i \in 1..Len(PacketActions) :
            DefaultStep(PacketActions[i]) =>
                /\ status = "Err"
                /\ err.kind \in FatalKinds
                /\ pc = "error"
                /\ resp = <<>>
                /\ sent = <<>>
                /\ "resume" \notin CalledOps
                /\ ((\A j \in 1..(i - 1) : Installable(PacketActions[j]))
                      /\ ev.host.at = 0) =>
                       /\ err = Error("PacketUnexpected")
                       /\ Len(calls) <= i

\* vCont;s with two threads: a host with single-step support was asked to
\* step by default, after clear_resume_actions and nothing else.
C11_Witness ==
    /\ IsCmd({"vCont"})
    /\ Multi
    /\ Has("support_single_step")
    /\ Len(PacketActions) = 1
    /\ PacketActions[1].kind = "Step"
    /\ PacketActions[1].thread = NoThread
    /\ err = Error("PacketUnexpected")
    /\ CalledOps = {"clear_resume_actions"}

\* C12 (vCont? reply): on single- and multi-thread targets alike the reply is
\* vCont;c;C, followed by ;s;S exactly when the base ops have single-step
\* support, followed by ;r exactly when they have range-step support; no host
\* operation is called.
C12_VContQueryReply ==
    IsCmd({"vCont?"}) =>
        /\ status = "Handled"
        /\ pc = "handled"
        /\ calls = <<>>
        /\ sent = <<"vCont;c;C"
                    \o (IF Has("support_single_step") THEN ";s;S" ELSE "")
                    \o (IF Has("support_range_step") THEN ";r" ELSE "")>>

\* A multi-thread host with range-step and without single-step support
\* answered vCont;c;C;r.
C12_Witness ==
    /\ IsCmd({"vCont?"})
    /\ Multi
    /\ ~Has("support_single_step")
    /\ sent = <<"vCont;c;C;r">>

\* The thread an H command naming Any selects: SINGLE_THREAD_TID on a
\* single-thread target, else the first thread the host listed.
AnyThread == IF Multi THEN ev.host.threads[1] ELSE SINGLE_THREAD_TID

\* C13 (H with thread Any): the command selects the first thread
\* list_active_threads reports (SINGLE_THREAD_TID on a single-thread target,
\* without asking the host), stores it in the slot the command names, leaves
\* the other slot alone and is answered OK; when a multi-thread host reports
\* no thread, or fails, the command fails fatally with NoActiveThreads, or
\* TargetError, and both slots keep their values.
C13_AnyThreadResolution ==
    (IsCmd({"H"}) /\ ev.arg.tid = IdAny) =>
        IF Multi /\ ev.host.r # "Ok"
        THEN /\ err = Error("TargetError")
             /\ pc = "error"
             /\ current_mem_tid = pre.mem
             /\ current_resume_tid = pre.res
        ELSE IF Multi /\ ev.host.threads = <<>>
        THEN /\ err = Error("NoActiveThreads")
             /\ pc = "error"
             /\ sent = <<>>
             /\ current_mem_tid = pre.mem
             /\ current_resume_tid = pre.res
        ELSE /\ status = "NeedsOk"
             /\ sent = <<"OK">>
             /\ calls = IF Multi THEN <<Call("list_active_threads", 0, 0, 0)>> ELSE <<>>
             /\ IF ev.arg.kind = "Other"
                THEN /\ current_mem_tid = AnyThread
                     /\ current_resume_tid = pre.res
                ELSE /\ current_resume_tid = WithId(AnyThread)
                     /\ current_mem_tid = pre.mem

\* Hg0 on a host listing thread 2 before thread 1 selected thread 2 for
\* memory operations.
C13_Witness ==
    /\ IsCmd({"H"})
    /\ ev.arg.tid = IdAny
    /\ ev.arg.kind = "Other"
    /\ Multi
    /\ Len(ev.host.threads) = 2
    /\ ev.host.threads[1] # SINGLE_THREAD_TID
    /\ current_mem_tid = ev.host.threads[1]
    /\ pre.mem # current_mem_tid

MemOps == {"read_registers", "write_registers", "read_addrs", "write_addrs"}

\* The thread a step selects for memory operations, if it selects one: the
\* thread a successful Hg names (the first listed thread for Any), or the
\* thread of a reported SwBreak, HwBreak or Watch stop. 0: the step selects
\* none.
SelectedByStep ==
    IF IsCmd({"H"}) /\ ev.arg.kind = "Other" /\ status = "NeedsOk"
    THEN IF ev.arg.tid.k = "WithId" THEN ev.arg.tid.id ELSE AnyThread
    ELSE IF IsStop({"SwBreak", "HwBreak", "Watch"}) /\ status = "Handled"
    THEN ev.arg.tid
    ELSE 0

\* C14 (the thread of register and memory operations): on a multi-thread
\* target every host call of a g, G, m or M command is a register or memory
\* operation on the thread selected when the command arrived, and the command
\* leaves the selection alone; a step changes the selection only by a
\* successful Hg, to the thread it names, or by a reported SwBreak, HwBreak or
\* Watch stop, to the stop's thread. So the thread used is the one selected by
\* the later of the last successful Hg and the last thread-carrying stop.
C14_MemOpsUseSelectedThread ==
    /\ (IsCmd({"g", "G", "m", "M"}) /\ Multi) =>
           /\ \A i \in 1..Len(calls) :
                  calls[i].op \in MemOps /\ calls[i].tid = pre.mem
           /\ current_mem_tid = pre.mem
           /\ IsCmd({"g"}) => Len(calls) = 1
           /\ (IsCmd({"M"}) /\ ev.arg.addr_ok) => Len(calls) = 1
    /\ current_mem_tid = IF SelectedByStep # 0 THEN SelectedByStep ELSE pre.mem
    /\ (IsStop({"SwBreak", "HwBreak", "Watch"}) /\ status = "Handled") =>
           SelectedByStep \in Tids
    /\ (IsCmd({"H"}) /\ ev.arg.kind = "Other" /\ ev.arg.tid.k = "WithId") =>
           status = "NeedsOk"

\* An m command read memory of thread 2 in two chunks after thread 2 had been
\* selected.
C14_Witness ==
    /\ IsCmd({"m"})
    /\ Multi
    /\ Len(calls) = 2
    /\ calls[2].tid # SINGLE_THREAD_TID
    /\ calls[2].tid = current_mem_tid

\* C15 (k and vKill): without extended mode the command disconnects with
\* reason Kill, writes nothing and calls no host operation; with extended
\* mode it calls the host's kill once (with the vKill packet's pid, none for
\* k) and, when kill succeeds, ends the session with reason Kill after writing
\* OK exactly when the host says the session must end, and otherwise is
\* answered OK with the session going on; a failed kill is an error and no
\* disconnect.
C15_KillCommand ==
    IsCmd({"k", "vKill"}) =>
        IF ~Has("support_extended_mode")
        THEN /\ status = "Disconnect"
             /\ reason = DisconnectReason("Kill", 0)
             /\ pc = "disconnected"
             /\ resp = <<>>
             /\ calls = <<>>
        ELSE /\ calls = <<Call("kill", 0, IF ev.kind = "vKill" THEN FAKE_PID ELSE 0, 0)>>
             /\ IF ev.host.r # "Ok"
                THEN /\ status = "Err"
                     /\ reason = NoReason
                     /\ pc # "disconnected"
                ELSE IF ev.host.should_terminate
                THEN /\ status = "Disconnect"
                     /\ reason = DisconnectReason("Kill", 0)
                     /\ pc = "disconnected"
                     /\ sent = <<"OK">>
                ELSE /\ status = "NeedsOk"
                     /\ reason = NoReason
                     /\ pc = "handled"
                     /\ sent = <<"OK">>

\* A vKill in extended mode was answered OK and the session goes on, the host
\* having said it need not end.
C15_Witness ==
    /\ IsCmd({"vKill"})
    /\ Has("support_extended_mode")
    /\ ev.host.r = "Ok"
    /\ ~ev.host.should_terminate
    /\ pc = "handled"
    /\ sent = <<"OK">>

\* Whether the thread a T packet names is alive: on a single-thread target
\* exactly SINGLE_THREAD_TID is, on a multi-thread one the host says.
NamedThreadAlive ==
    IF Multi THEN ev.host.alive ELSE ev.arg.tid.id = SINGLE_THREAD_TID

\* C16 (T thread-alive query): a T packet naming a concrete thread is
\* answered OK when the thread is alive and E01 when it is not, and the
\* session goes on either way; a single-thread target is not asked, a
\* multi-thread host is asked once through is_thread_alive, and its failure is
\* fatal; a T packet naming Any or All is the protocol error PacketUnexpected,
\* which ends the session with nothing sent.
C16_ThreadAlive ==
    IsCmd({"T"}) =>
        IF ev.arg.tid.k # "WithId"
        THEN /\ err = Error("PacketUnexpected")
             /\ pc = "error"
             /\ sent = <<>>
             /\ calls = <<>>
        ELSE /\ calls = IF Multi
                        THEN <<Call("is_thread_alive", ev.arg.tid.id, 0, 0)>>
                        ELSE <<>>
             /\ IF Multi /\ ev.host.r # "Ok"
                THEN err = Error("TargetError") /\ pc = "error"
                ELSE /\ pc = "handled"
                     /\ ENABLED NextPacket
                     /\ sent = <<IF NamedThreadAlive THEN "OK" ELSE "E01">>
                     /\ status = IF NamedThreadAlive THEN "NeedsOk" ELSE "Err"

\* On a single-thread target a T packet for a thread other than
\* SINGLE_THREAD_TID was answered E01.
C16_Witness ==
    /\ IsCmd({"T"})
    /\ ~Multi
    /\ ev.arg.tid.k = "WithId"
    /\ ev.arg.tid.id # SINGLE_THREAD_TID
    /\ sent = <<"E01">>
    /\ pc = "handled"

\* C17 (qRegisterInfo): a host with the register-info capability is asked
\* once, through get_register_info(n); Some(info) is answered with the info
\* string as it is, None with OK; a host without the capability is not asked
\* and the response is empty. The session goes on in every case.
C17_RegisterInfo ==
    IsCmd({"qRegisterInfo"}) =>
        /\ pc = "handled"
        /\ IF ~Has("support_register_info")
           THEN /\ status = "Handled"
                /\ resp = <<>>
                /\ sent = <<"">>
                /\ calls = <<>>
           ELSE /\ calls = <<Call("get_register_info", 0, ev.arg.n, 0)>>
                /\ IF get_register_info(ev.arg.n) # <<>>
                   THEN /\ status = "Handled"
                        /\ sent = get_register_info(ev.arg.n)
                   ELSE /\ status = "NeedsOk"
                        /\ resp = <<>>
                        /\ sent = <<"OK">>

\* qRegisterInfo for a register past the last one was answered OK by a host
\* with the capability.
C17_Witness ==
    /\ IsCmd({"qRegisterInfo"})
    /\ Has("support_register_info")
    /\ ev.arg.n = MaxRegNum
    /\ get_register_info(ev.arg.n) = <<>>
    /\ sent = <<"OK">>

\* What a step that surfaces an interrupt does: it starts where an accepted
\* resume command left the session waiting with nothing written or sent, it
\* reports Signal(SIGINT), its stop packet S02 is the one packet sent, and the
\* session goes on to the next packet with the selected threads unchanged.
InterruptStep ==
    ev'.type = "interrupt" =>
        /\ pc = "running"
        /\ IsCmd(ResumeKinds)
        /\ status = "DeferredStopReason"
        /\ resp = <<>>
        /\ sent = <<>>
        /\ ev'.arg = StopReason("Signal", 0, SIGINT, "")
        /\ status' = "Handled"
        /\ sent' = <<"S02">>
        /\ sent' = <<Wire(resp')>>
        /\ pc' = "handled"
        /\ current_mem_tid' = current_mem_tid
        /\ current_resume_tid' = current_resume_tid

\* C18 (interrupt during a run): a 0x03 byte is surfaced only while the
\* session waits after an accepted resume command, as the stop event
\* on_interrupt gives; its stop packet is the only packet sent for that resume
\* command, no response is in flight when it is written, and the session
\* keeps running afterwards.
C18_InterruptDuringRun == [][InterruptStep]_vars

\* An interrupt was surfaced after a vCont and answered S02; the next packet
\* can be read.
C18_Witness ==
    /\ ev.type = "interrupt"
    /\ sent = <<"S02">>
    /\ pc = "handled"
    /\ ENABLED NextPacket

ResumeOps == {"resume", "step", "resume_range_step"}

\* The list was rejected: the error is one the handler raised, not the host.
ListRejected == status = "Err" /\ err.kind # "TargetError"

\* C19 as stated (single-thread vCont): a list is accepted only with one
\* action, or with two of which the second is a c that names no thread (a
\* default continue); a second action of any other form, a third action, or
\* Stop as the first action is a protocol error; a rejected list invokes none
\* of resume, step and resume_range_step.
C19_SecondActionDefaultContinue ==
    (IsCmd({"vCont"}) /\ ~Multi) =>
        /\ status = "DeferredStopReason" =>
               /\ Len(PacketActions) \in {1, 2}
               /\ PacketActions[1].kind # "Stop"
               /\ Len(PacketActions) = 2 =>
                      /\ PacketActions[2].kind = "Continue"
                      /\ PacketActions[2].thread.k \in {"None", "All"}
        /\ ListRejected => CalledOps \cap ResumeOps = {}

\* C19 as amended: the second action must be of kind Continue (a c without
\* signal), whatever thread-id it carries; the list is malformed (PacketParse)
\* when it is empty or its first or second action does not parse; otherwise a
\* second action of another kind or a third action is PacketUnexpected, and so
\* is Stop as the first action; a rejected list makes no host call and sends
\* nothing, an accepted one makes exactly one call of resume, step or
\* resume_range_step.
C19_SingleThreadActionList ==
    (IsCmd({"vCont"}) /\ ~Multi) =>
        LET n == Len(PacketActions)
        IN  /\ IF n = 0 \/ PacketActions[1].kind = "Malformed"
                   \/ (n >= 2 /\ PacketActions[2].kind = "Malformed")
               THEN err = Error("PacketParse")
               ELSE IF n >= 3 \/ (n = 2 /\ PacketActions[2].kind # "Continue")
               THEN err = Error("PacketUnexpected")
               ELSE IF PacketActions[1].kind = "Stop"
               THEN err = Error("PacketUnexpected")
               ELSE IF PacketActions[1].kind \in {"Continue", "ContinueWithSig"}
               THEN err.kind \in {"none", "TargetError"}
               ELSE TRUE
            /\ ListRejected =>
                   (calls = <<>> /\ pc = "error" /\ sent = <<>>)
            /\ status = "DeferredStopReason" =>
                   (Len(calls) = 1 /\ calls[1].op \in ResumeOps)

\* vCont;s:1;c:2 on a single-thread target with single-step support was
\* accepted: the second action is a continue that names a thread.
C19_Witness ==
    /\ IsCmd({"vCont"})
    /\ ~Multi
    /\ Len(PacketActions) = 2
    /\ PacketActions[1].kind = "Step"
    /\ PacketActions[2].kind = "Continue"
    /\ PacketActions[2].thread.k = "WithId"
    /\ status = "DeferredStopReason"
    /\ calls = <<Call("step", 0, 0, 0)>>

\* The host call that installs action a for the thread it names.
InstallCall(a) ==
    CASE a.kind \in {"Continue", "ContinueWithSig"} ->
             Call("set_resume_action_continue", a.thread.id, a.sig, 0)
      [] a.kind \in {"Step", "StepWithSig"} ->
             Call("set_resume_action_step", a.thread.id, a.sig, 0)
      [] a.kind = "RangeStep" ->
             Call("set_resume_action_range_step", a.thread.id, a.x, a.y)
      [] OTHER -> Call("none", 0, 0, 0)

\* The host calls of a multi-thread vCont that goes through: the clear, one
\* install per action naming a concrete thread, in packet order, the resume.
ExpectedCalls ==
    LET named == SelectSeq(PacketActions, LAMBDA a : a.thread.k = "WithId")
    IN  <<Call("clear_resume_actions", 0, 0, 0)>>
        \o [i \in 1..Len(named) |-> InstallCall(named[i])]
        \o <<Call("resume", 0, 0, 0)>>

\* C20 (multi-thread vCont): clear_resume_actions is the first host call and
\* is made once; an accepted packet makes exactly the calls clear, one
\* set_resume_action_* per action naming a concrete thread in packet order
\* (none for a Continue whose thread is absent or All), then resume() once; a
\* packet that fails makes a prefix of these calls, with resume() at most
\* once and last.
C20_MultiThreadCallOrder ==
    (IsCmd({"vCont"}) /\ Multi) =>
        /\ calls # <<>>
        /\ calls[1].op = "clear_resume_actions"
        /\ \A i \in 2..Len(calls) : calls[i].op # "clear_resume_actions"
        /\ \A i \in 1..Len(calls) :
               calls[i].op = "resume" => i = Len(calls) /\ i = Len(ExpectedCalls)
        /\ Len(calls) <= Len(ExpectedCalls)
        /\ \A i \in 1..Len(calls) : calls[i] = ExpectedCalls[i]
        /\ status = "DeferredStopReason" => calls = ExpectedCalls

\* vCont;s:2;c:1;c on a multi-thread target went through: clear, step for
\* thread 2, continue for thread 1, nothing for the default continue, resume.
C20_Witness ==
    /\ IsCmd({"vCont"})
    /\ Multi
    /\ status = "DeferredStopReason"
    /\ Len(PacketActions) = 3
    /\ PacketActions[3].kind = "Continue"
    /\ PacketActions[3].thread.k = "None"
    /\ calls = <<Call("clear_resume_actions", 0, 0, 0),
                 Call("set_resume_action_step", MaxTid, 0, 0),
                 Call("set_resume_action_continue", SINGLE_THREAD_TID, 0, 0),
                 Call("resume", 0, 0, 0)>>

\* What the vCont packet with the one action kind:<thread> does on the same
\* host run.
EquivalentVCont(kind, thread) ==
    do_vcont(<<Action(kind, 0, thread, 0, 0, TRUE)>>, ev.host.at, ev.host.r)

\* current_resume_tid is changed only by a successful Hc and by an accepted
\* stop that carries a thread.
ResumeTidSetByStep ==
    current_resume_tid # pre.res =>
        \/ IsCmd({"H"}) /\ ev.arg.kind = "StepContinue" /\ status = "NeedsOk"
        \/ IsStop({"SwBreak", "HwBreak", "Watch"}) /\ status = "Handled"

\* C21 (legacy c and s): the packet does what vCont with the single action
\* Continue (for c) or Step (for s) on the current_resume_tid of the moment
\* does: same status, same error, same host calls in the same order, nothing
\* sent before the stop; with or without a resume address; the selection is
\* the one a successful Hc or a thread-carrying stop last set.
C21_LegacyResume ==
    /\ ResumeTidSetByStep
    /\ IsCmd({"c", "s"}) =>
        LET kind == IF ev.kind = "c" THEN "Continue" ELSE "Step"
            install == IF ev.kind = "c" THEN "set_resume_action_continue"
                       ELSE "set_resume_action_step"
            eq == EquivalentVCont(kind, pre.res)
        IN  /\ status = eq.status
            /\ err = eq.err
            /\ calls = eq.calls
            /\ sent = Flush(eq)
            /\ current_resume_tid = pre.res
            /\ current_mem_tid = pre.mem
            /\ status = "DeferredStopReason" =>
                   IF ~Multi
                   THEN calls = <<Call(IF ev.kind = "c" THEN "resume" ELSE "step",
                                       0, 0, 0)>>
                   ELSE IF pre.res.k = "WithId"
                   THEN calls = <<Call("clear_resume_actions", 0, 0, 0),
                                  Call(install, pre.res.id, 0, 0),
                                  Call("resume", 0, 0, 0)>>
                   ELSE /\ ev.kind = "c"
                        /\ calls = <<Call("clear_resume_actions", 0, 0, 0),
                                     Call("resume", 0, 0, 0)>>

\* An s packet with a resume address, sent to a multi-thread target after
\* thread MaxTid was selected for resuming, stepped that thread.
C21_Witness ==
    /\ IsCmd({"s"})
    /\ Multi
    /\ ev.arg.addr.some
    /\ pre.res = WithId(MaxTid)
    /\ pre.mem # MaxTid
    /\ status = "DeferredStopReason"
    /\ calls = <<Call("clear_resume_actions", 0, 0, 0),
                 Call("set_resume_action_step", MaxTid, 0, 0),
                 Call("resume", 0, 0, 0)>>

\* C22 (H): Hg naming a thread stores it in current_mem_tid and leaves
\* current_resume_tid alone; Hc naming a thread, or All, stores the selector
\* in current_resume_tid and leaves current_mem_tid alone; Hg naming All is
\* an error that changes neither;NeedsOk is the only success of H and is
\* answered with the payload OK; a failed H changes neither field.
C22_ThreadSelection ==
    IsCmd({"H"}) =>
        /\ status \in {"NeedsOk", "Err"}
        /\ status = "NeedsOk" => (sent = <<"OK">> /\ pc = "handled")
        /\ status = "Err" =>
               (current_mem_tid = pre.mem /\ current_resume_tid = pre.res)
        /\ IF ev.arg.kind = "Other"
           THEN /\ current_resume_tid = pre.res
                /\ ev.arg.tid.k = "WithId" =>
                       (status = "NeedsOk" /\ current_mem_tid = ev.arg.tid.id)
                /\ ev.arg.tid.k = "All" => status = "Err"
           ELSE /\ current_mem_tid = pre.mem
                /\ ev.arg.tid.k = "WithId" =>
                       (status = "NeedsOk" /\ current_resume_tid = ev.arg.tid)
                /\ ev.arg.tid.k = "All" =>
                       (status = "NeedsOk" /\ current_resume_tid = IdAll)

\* Hc-1 was answered OK and moved current_resume_tid from a thread back to
\* All, while current_mem_tid kept the thread an earlier Hg selected.
C22_Witness ==
    /\ IsCmd({"H"})
    /\ ev.arg.kind = "StepContinue"
    /\ ev.arg.tid = IdAll
    /\ pre.res = WithId(MaxTid)
    /\ current_resume_tid = IdAll
    /\ current_mem_tid = MaxTid
    /\ sent = <<"OK">>

RECURSIVE SumOfSizes(_)
\* The bytes a sequence of read_addrs calls asks for.
SumOfSizes(cs) == IF cs = <<>> THEN 0 ELSE Head(cs).y + SumOfSizes(Tail(cs))

\* The number of chunks of n bytes read through a buffer of b bytes.
ChunkCount(n, b) == (n + b - 1) \div b

\* C23 as stated (m for n bytes at address a, packet buffer of B bytes): the
\* host calls are read_addrs only, call k (from 0) at address a + k*B for
\* min(B, n - k*B) bytes, so in ascending address order; when no call fails
\* the command ends Handled after ceil(n/B) calls whose sizes sum to n (none
\* for n = 0), and the payload sent is the hex of the chunks in order, which
\* is the hex of the n bytes at a (empty for n = 0); a failing call ends the
\* loop at that call.
C23_ChunkedRead ==
    (IsCmd({"m"}) /\ ev.arg.addr_ok) =>
        LET n == ev.arg.len
            a == ev.arg.addr
            B == PacketBufLen
            size(k) == Min(B, n - (k - 1) * B)
        IN  /\ Len(calls) <= ChunkCount(n, B)
            /\ \A k \in 1..Len(calls) :
                   /\ calls[k].op = "read_addrs"
                   /\ calls[k].x = a + (k - 1) * B
                   /\ calls[k].y = size(k)
                   /\ calls[k].y \in 1..B
                   /\ k > 1 => calls[k].x > calls[k - 1].x
            /\ ev.host.at = 0 => status = "Handled"
            /\ ev.host.at # 0 => (status = "Err" /\ Len(calls) = ev.host.at)
            /\ status = "Handled" =>
                   /\ Len(calls) = ChunkCount(n, B)
                   /\ SumOfSizes(calls) = n
                   /\ resp = [k \in 1..Len(calls) |->
                                 write_hex_buf(MemBytes(calls[k].x, calls[k].y))]
                   /\ sent = <<write_hex_buf(MemBytes(a, n))>>
                   /\ Len(sent[1]) = 2 * n

\* Chunk k (from 1) of the m command handled starts past the top of the
\* architecture's address space.
ChunkPassesTop(k) == ev.arg.addr + (k - 1) * PacketBufLen > ArchUsizeMax

\* C23 as the code has it: the loop ends for every n, and the calls are as
\* stated as long as no chunk starts past the top of the address space. The
\* first chunk that does is read at its address modulo 2^w (w the width of
\* Usize), below the chunks before it, in a build without overflow checks;
\* in a build with them the handler panics at that chunk, after the calls and
\* the hex of the chunks before it, and nothing is sent.
C23_AsImplemented ==
    (IsCmd({"m"}) /\ ev.arg.addr_ok) =>
        LET n == ev.arg.len
            a == ev.arg.addr
            B == PacketBufLen
            size(k) == Min(B, n - (k - 1) * B)
        IN  /\ Len(calls) <= ChunkCount(n, B)
            /\ \A k \in 1..Len(calls) :
                   /\ calls[k].op = "read_addrs"
                   /\ calls[k].x = (a + (k - 1) * B) % (ArchUsizeMax + 1)
                   /\ calls[k].y = size(k)
                   /\ calls[k].y \in 1..B
                   /\ (k > 1 /\ ~ChunkPassesTop(k)) => calls[k].x > calls[k - 1].x
                   /\ (k > 1 /\ ChunkPassesTop(k)) => calls[k].x < calls[k - 1].x
            /\ status = "Panic" =>
                   /\ ev.host.at = 0
                   /\ Len(calls) < ChunkCount(n, B)
                   /\ ChunkPassesTop(Len(calls) + 1)
                   /\ ~ChunkPassesTop(Len(calls))
                   /\ pc = "panicked"
                   /\ sent = <<>>
            /\ ~ChunkPassesTop(ChunkCount(n, B)) => status # "Panic"
            /\ (ev.host.at = 0 /\ status # "Panic") => status = "Handled"
            /\ ev.host.at # 0 => (status = "Err" /\ Len(calls) = ev.host.at)
            /\ resp = [k \in 1..Len(resp) |->
                          write_hex_buf(MemBytes(calls[k].x, calls[k].y))]
            /\ status = "Handled" =>
                   /\ Len(calls) = ChunkCount(n, B)
                   /\ SumOfSizes(calls) = n
                   /\ Len(resp) = Len(calls)
                   /\ sent = <<write_hex_buf(MemBytes(a, n))>>
                   /\ Len(sent[1]) = 2 * n

\* A read whose second chunk starts past the top of the address space: the
\* build without overflow checks read that chunk from the bottom of the
\* address space.
C23_Witness ==
    /\ IsCmd({"m"})
    /\ ev.arg.addr_ok
    /\ status = "Handled"
    /\ Len(calls) = 2
    /\ ChunkPassesTop(2)
    /\ calls[1].x = ev.arg.addr
    /\ calls[2].x < calls[1].x

\* The static XML without the whitespace around it: the stretch from its
\* first to its last char that is not whitespace.
TrimmedXml ==
    LET marks == {i \in DOMAIN StaticXml : ~IsSpace(StaticXml[i])}
        first == CHOOSE i \in marks : \A j \in marks : i <= j
        last == CHOOSE i \in marks : \A j \in marks : i >= j
    IN  IF marks = {} THEN <<>> ELSE SubSeq(StaticXml, first, last)

\* Its bytes.
TrimmedBytes == as_bytes(TrimmedXml)

\* The offset plus the length of the qXfer:features:read handled passes
\* usize::MAX.
XferOverflows == UsizeAddOverflows(ev.arg.offset, ev.arg.length)

\* The bytes a static qXfer:features:read is asked for and can be served: those
\* of the trimmed XML from the offset on, at most length of them and at most
\* a bufferful.
ServedWindow ==
    IF UsizeLt(ev.arg.offset, Len(TrimmedBytes))
    THEN SubSeq(TrimmedBytes, ev.arg.offset + 1,
                Min(Len(TrimmedBytes),
                    ev.arg.offset + UsizeMin(ev.arg.length, PacketBufLen)))
    ELSE <<>>

StaticXfer ==
    /\ IsCmd({"qXferFeaturesRead"})
    /\ ~Has("support_target_description_xml_override")
    /\ Has("target_description_xml")

\* C24 as stated, for the static XML: the reply is l when the window is
\* empty, l<bytes> when the window served reaches the end of the trimmed
\* XML, and m<bytes> when more data remains after it.
C24_LastWindowMarked ==
    StaticXfer =>
        /\ status = "Handled"
        /\ sent = IF ServedWindow = <<>>
                  THEN <<"l">>
                  ELSE IF ev.arg.offset + Len(ServedWindow) = Len(TrimmedBytes)
                  THEN <<"l" \o write_binary(ServedWindow)>>
                  ELSE <<"m" \o write_binary(ServedWindow)>>

\* C24 as amended: the reply is l when the window is empty and m<bytes>
\* whenever it is not, also when it reaches the end of the description (the
\* end is told by the l that answers the next read). The host's override
\* reader is used when present: it is called once with the offset and the
\* length, its count 0 gives l, a count within the buffer gives m and that
\* many bytes of the buffer, a larger count is PacketBufferOverflow, its
\* failure is the command's error. Without it the window is taken from the
\* whitespace-trimmed static XML with no host call. With neither source the
\* command is PacketUnexpected and nothing is sent. The windows of the static
\* XML are those of the requests whose offset plus length stays within usize;
\* what the others get is the matter of C33.
C24_XferFeaturesRead ==
    IsCmd({"qXferFeaturesRead"}) =>
        IF Has("support_target_description_xml_override")
        THEN /\ calls = <<Call("target_description_xml", 0,
                               ev.arg.offset, ev.arg.length)>>
             /\ IF ev.host.r # "Ok"
                THEN status = "Err" /\ err = handle_error(ev.host.r)
                ELSE IF ev.host.ret = 0
                THEN status = "Handled" /\ sent = <<"l">>
                ELSE IF ev.host.ret > PacketBufLen
                THEN err = Error("PacketBufferOverflow") /\ pc = "error" /\ sent = <<>>
                ELSE /\ status = "Handled"
                     /\ sent = <<"m" \o write_binary(OverrideXml(ev.host.ret))>>
        ELSE IF Has("target_description_xml")
        THEN /\ calls = <<>>
             /\ ~XferOverflows =>
                    /\ status = "Handled"
                    /\ sent = IF ServedWindow = <<>>
                              THEN <<"l">>
                              ELSE <<"m" \o write_binary(ServedWindow)>>
        ELSE /\ err = Error("PacketUnexpected")
             /\ pc = "error"
             /\ calls = <<>>
             /\ sent = <<>>

\* A read of the last bytes of the static XML was answered m<bytes>.
C24_Witness ==
    /\ StaticXfer
    /\ ServedWindow # <<>>
    /\ ev.arg.offset + Len(ServedWindow) = Len(TrimmedBytes)
    /\ ev.arg.offset > 0
    /\ sent = <<"m" \o write_binary(ServedWindow)>>

\* Ids below 16 are one byte: a zero and one hex digit.
SmallIdText(n) == "0" \o HexDigits[n + 1]

\* The text of the SpecificThreadId of thread t: p<FAKE_PID>.<t>.
ThreadIdText(t) == "p" \o SmallIdText(FAKE_PID) \o "." \o SmallIdText(t)

RECURSIVE CommaSeparated(_)
\* The ids of the threads of a list, in order, a comma between neighbours.
CommaSeparated(threads) ==
    IF threads = <<>>
    THEN ""
    ELSE IF Len(threads) = 1
    THEN ThreadIdText(threads[1])
    ELSE CommaSeparated(SubSeq(threads, 1, Len(threads) - 1))
         \o "," \o ThreadIdText(threads[Len(threads)])

\* C25 (thread enumeration): qfThreadInfo on a single-thread target is
\* answered m and the one id of SINGLE_THREAD_TID, without a host call; on a
\* multi-thread target it calls list_active_threads once and is answered m
\* and the ids of the reported threads in the reported order, separated by
\* single commas, none leading or trailing (a host failure ends the session
\* with TargetError and nothing is sent); qsThreadInfo is answered l, with no
\* host call, whatever came before.
C25_ThreadInfo ==
    /\ IsCmd({"qfThreadInfo"}) =>
           IF ~Multi
           THEN /\ status = "Handled"
                /\ calls = <<>>
                /\ sent = <<"m" \o ThreadIdText(SINGLE_THREAD_TID)>>
           ELSE /\ calls = <<Call("list_active_threads", 0, 0, 0)>>
                /\ IF ev.host.r = "Ok"
                   THEN /\ status = "Handled"
                        /\ sent = <<"m" \o CommaSeparated(ev.host.threads)>>
                   ELSE /\ err = Error("TargetError")
                        /\ pc = "error"
                        /\ sent = <<>>
    /\ IsCmd({"qsThreadInfo"}) =>
           /\ status = "Handled"
           /\ calls = <<>>
           /\ sent = <<"l">>

\* A multi-thread host reporting thread 2 before thread 1 was answered with
\* both ids in that order.
C25_Witness ==
    /\ IsCmd({"qfThreadInfo"})
    /\ Multi
    /\ ev.host.threads = <<MaxTid, SINGLE_THREAD_TID>>
    /\ sent = <<"mp01.02,p01.01">>

\* C26 (G): when gdb_deserialize rejects the payload the command fails with
\* the fatal TargetMismatch, no host operation is called (write_registers in
\* particular) and nothing is sent; when it accepts the payload,
\* write_registers is called exactly once, for the thread selected for memory
\* operations, and its success is answered OK (its failure is the command's
\* error).
C26_RegisterWrite ==
    IsCmd({"G"}) =>
        IF ~ev.arg.accepted
        THEN /\ status = "Err"
             /\ err = Error("TargetMismatch")
             /\ pc = "error"
             /\ calls = <<>>
             /\ sent = <<>>
        ELSE /\ Len(calls) = 1
             /\ calls[1].op = "write_registers"
             /\ calls[1].tid = (IF Multi THEN pre.mem ELSE 0)
             /\ IF ev.host.r = "Ok"
                THEN status = "NeedsOk" /\ sent = <<"OK">>
                ELSE status = "Err" /\ err = handle_error(ev.host.r)

\* A G packet whose payload the architecture's deserializer rejected ended the
\* session without reaching the host.
C26_Witness ==
    /\ IsCmd({"G"})
    /\ ~ev.arg.accepted
    /\ err = Error("TargetMismatch")
    /\ calls = <<>>
    /\ pc = "error"

\* C27 (?): the reply is S05 and no host operation is called, in every state
\* the session can be in, so whatever stop was reported last; the command
\* changes no field of the engine.
C27_QuestionMark ==
    IsCmd({"QuestionMark"}) =>
        /\ status = "Handled"
        /\ sent = <<"S" \o HexOf(SIGTRAP)>>
        /\ sent = <<"S05">>
        /\ calls = <<>>
        /\ Fields = pre

\* ? was answered S05 on a host with watchpoints only, after a stop had
\* selected thread MaxTid: no packet of the specification selects a thread
\* and the host's one thread-carrying stop is Watch.
C27_Witness ==
    /\ IsCmd({"QuestionMark"})
    /\ caps = {"support_breakpoints", "support_hw_watchpoint"}
    /\ pre.mem = MaxTid
    /\ pre.res = WithId(MaxTid)
    /\ sent = <<"S05">>
    /\ calls = <<>>

ThreadStops == {"SwBreak", "HwBreak", "Watch"}

\* C28 (stops and the thread selections): an accepted SwBreak, HwBreak or
\* Watch stop for thread t leaves current_mem_tid = t and current_resume_tid
\* = WithId(t), whatever Hg and Hc selected before, and names t in its T05
\* packet; every other stop (DoneStep, Signal, Exited, Terminated, ReplayLog,
\* CatchSyscall, and a thread-carrying stop the host has no capability for)
\* leaves both selections as they were.
C28_StopSelectsThread ==
    (ev.type \in {"stop", "interrupt"}) =>
        IF ev.kind \in ThreadStops /\ StopCapability(ev.kind)
        THEN /\ status = "Handled"
             /\ current_mem_tid = ev.arg.tid
             /\ current_resume_tid = WithId(ev.arg.tid)
             /\ SubSeq(resp, 1, 4) = <<"T05", "thread:", ThreadIdText(ev.arg.tid), ";">>
        ELSE /\ current_mem_tid = pre.mem
             /\ current_resume_tid = pre.res

\* A Watch stop for thread 1 was reported after Hg and Hc had both selected
\* thread MaxTid: both selections moved to thread 1.
C28_Witness ==
    /\ IsStop({"Watch"})
    /\ status = "Handled"
    /\ pre.mem = MaxTid
    /\ pre.res = WithId(MaxTid)
    /\ ev.arg.tid = SINGLE_THREAD_TID
    /\ current_mem_tid = SINGLE_THREAD_TID
    /\ current_resume_tid = WithId(SINGLE_THREAD_TID)

\* The error the multi-thread loop raises for an action it does not pass.
RejectionOf(a) ==
    CASE a.kind = "Malformed" -> Error("PacketParse")
      [] a.kind = "RangeStep" /\ a.thread.k = "WithId"
           /\ Has("support_range_step") /\ ~a.dec -> Error("TargetMismatch")
      [] OTHER -> Error("PacketUnexpected")

\* The install calls of the concrete-thread actions among the first j of the
\* packet, in order.
InstalledBefore(j) ==
    LET named == SelectSeq(SubSeq(PacketActions, 1, j),
                           LAMBDA a : a.thread.k = "WithId")
    IN  [i \in 1..Len(named) |-> InstallCall(named[i])]

\* C29 (multi-thread vCont, rejected list): when some action of the list is
\* not passed (malformed, Stop, a step or range step without the capability
\* or without a concrete thread, a range that does not decode) the packet
\* fails, sends nothing, and resume() is not called; when a host call fails,
\* it is the last call and the packet fails with TargetError, so resume() is
\* not called after a failed set call; by then clear_resume_actions has run
\* and the set calls of the actions before the rejected one have been made,
\* in order: the host keeps that partial set.
C29_RejectedListNeverResumes ==
    (IsCmd({"vCont"}) /\ Multi) =>
        LET bad == {i \in 1..Len(PacketActions) : ~Installable(PacketActions[i])}
            first == CHOOSE i \in bad : \A j \in bad : i <= j
        IN  /\ bad # {} =>
                   /\ status = "Err"
                   /\ pc = "error"
                   /\ sent = <<>>
                   /\ "resume" \notin CalledOps
            /\ (status = "Err" /\ err.kind # "TargetError") =>
                   /\ bad # {}
                   /\ err = RejectionOf(PacketActions[first])
                   /\ calls = <<Call("clear_resume_actions", 0, 0, 0)>>
                              \o InstalledBefore(first - 1)
            /\ (status = "Err" /\ err.kind = "TargetError") =>
                   /\ Len(calls) = ev.host.at
                   /\ \A i \in 1..(Len(calls) - 1) : calls[i].op # "resume"
                   /\ calls[Len(calls)].op # "resume" => "resume" \notin CalledOps
            /\ status = "DeferredStopReason" => bad = {}

\* vCont;c:1;s:2;t failed at the Stop action after the host was told to
\* continue thread 1 and step thread 2: a partial set, never resumed.
C29_Witness ==
    /\ IsCmd({"vCont"})
    /\ Multi
    /\ Len(PacketActions) = 3
    /\ PacketActions[3].kind = "Stop"
    /\ err = Error("PacketUnexpected")
    /\ calls = <<Call("clear_resume_actions", 0, 0, 0),
                 Call("set_resume_action_continue", SINGLE_THREAD_TID, 0, 0),
                 Call("set_resume_action_step", MaxTid, 0, 0)>>

\* Whether the qSupported reply of this host carries the feature.
Advertised(feature) == Contains(Base_qSupported(PacketBufLen).resp, feature)

\* C30 (advertisement and acceptance agree): on a host whose qSupported reply
\* contains swbreak+, a reported SwBreak stop is accepted and sent as a T05
\* packet; on a host whose reply contains hwbreak+, a reported HwBreak stop
\* is.
C30_AdvertisedStopAccepted ==
    /\ (IsStop({"SwBreak"}) /\ Advertised(";swbreak+")) =>
           (status = "Handled" /\ resp # <<>> /\ resp[1] = "T05")
    /\ (IsStop({"HwBreak"}) /\ Advertised(";hwbreak+")) =>
           (status = "Handled" /\ resp # <<>> /\ resp[1] = "T05")

\* C30 as the code has it: swbreak+ is advertised exactly by the hosts whose
\* SwBreak stops are accepted; hwbreak+ is advertised by the hosts whose
\* HwBreak stops are accepted and also by those that have hardware
\* watchpoints only, whose HwBreak stop fails with UnsupportedStopReason
\* and sends nothing.
C30_AsImplemented ==
    /\ IsStop({"SwBreak"}) =>
           (Advertised(";swbreak+") <=> status = "Handled")
    /\ IsStop({"HwBreak"}) =>
           /\ status = "Handled" => (Advertised(";hwbreak+") /\ resp[1] = "T05")
           /\ (Advertised(";hwbreak+") /\ status # "Handled") =>
                  /\ Has("support_hw_watchpoint")
                  /\ ~Has("support_hw_breakpoint")
                  /\ err = Error("UnsupportedStopReason")
                  /\ pc = "error"
                  /\ sent = <<>>
           /\ (Advertised(";hwbreak+") /\ Has("support_hw_breakpoint")) =>
                  status = "Handled"

\* A host with hardware watchpoints and no hardware breakpoints, which
\* advertises hwbreak+, reported a HwBreak stop and the session ended with
\* UnsupportedStopReason.
C30_Witness ==
    /\ IsStop({"HwBreak"})
    /\ Advertised(";hwbreak+")
    /\ caps = {"support_breakpoints", "support_hw_watchpoint"}
    /\ err = Error("UnsupportedStopReason")
    /\ pc = "error"

\* Whether the vCont? reply of this host lists the actions.
QueryLists(acts) == Contains(Base_vCont_Query.resp, acts)

\* The place among the host calls of the install call of action i of a
\* multi-thread packet.
InstallPlace(i) == Len(InstalledBefore(i - 1)) + 2

\* The multi-thread loop gets as far as action i: the actions before it are
\* passed and no host call before its own fails.
ActionReached(i) ==
    /\ \A j \in 1..(i - 1) : Installable(PacketActions[j])
    /\ ev.host.at = 0 \/ ev.host.at >= InstallPlace(i)

\* Action i, which names a concrete thread, was handed to the host.
ActionInstalled(i) ==
    /\ Len(calls) >= InstallPlace(i)
    /\ calls[InstallPlace(i)] = InstallCall(PacketActions[i])

\* A single-thread list of a legal shape: one action, or two with a second
\* of kind Continue.
LegalShape ==
    /\ Len(PacketActions) \in {1, 2}
    /\ Len(PacketActions) = 2 => PacketActions[2].kind = "Continue"

\* C31 (acceptance agrees with vCont?): a Step or StepWithSig action is
\* handed to the host if and only if the vCont? reply of the host lists
\* ;s;S, a RangeStep action only if the reply lists ;r, and otherwise the
\* action is the protocol error PacketUnexpected with no call for it; a
\* Continue or ContinueWithSig action is never refused. On a multi-thread
\* target this is said of every action the loop reaches that names a
\* concrete thread, on a single-thread target of the first action of a list
\* of a legal shape.
C31_AcceptanceMatchesQuery ==
    IsCmd({"vCont"}) =>
        IF Multi
        THEN \A i \in 1..Len(PacketActions) :
                 LET a == PacketActions[i]
                 IN  (ActionReached(i) /\ a.thread.k = "WithId") =>
                         /\ a.kind \in {"Step", "StepWithSig"} =>
                                /\ ActionInstalled(i) <=> QueryLists(";s;S")
                                /\ ~QueryLists(";s;S") =>
                                       err = Error("PacketUnexpected")
                         /\ a.kind = "RangeStep" =>
                                /\ ActionInstalled(i) => QueryLists(";r")
                                /\ ~QueryLists(";r") =>
                                       err = Error("PacketUnexpected")
                         /\ a.kind \in {"Continue", "ContinueWithSig"} =>
                                ActionInstalled(i)
        ELSE LegalShape =>
                 LET a == PacketActions[1]
                 IN  /\ a.kind \in {"Step", "StepWithSig"} =>
                            /\ calls = <<Call("step", 0, a.sig, 0)>>
                                   <=> QueryLists(";s;S")
                            /\ ~QueryLists(";s;S") =>
                                   (err = Error("PacketUnexpected") /\ calls = <<>>)
                     /\ a.kind = "RangeStep" =>
                            /\ calls # <<>> =>
                                   (calls[1].op = "resume_range_step"
                                    /\ QueryLists(";r"))
                            /\ ~QueryLists(";r") =>
                                   (err = Error("PacketUnexpected") /\ calls = <<>>)
                     /\ a.kind \in {"Continue", "ContinueWithSig"} =>
                            /\ calls = <<Call("resume", 0, a.sig, 0)>>
                            /\ err.kind \in {"none", "TargetError"}

\* vCont;c:1;s:2 on a multi-thread host without single-step support, whose
\* vCont? reply has no ;s;S: the continue was installed and the step refused.
C31_Witness ==
    /\ IsCmd({"vCont"})
    /\ Multi
    /\ ~QueryLists(";s;S")
    /\ Len(PacketActions) = 2
    /\ PacketActions[1].kind = "Continue"
    /\ PacketActions[2].kind = "Step"
    /\ PacketActions[2].thread = WithId(MaxTid)
    /\ calls = <<Call("clear_resume_actions", 0, 0, 0),
                 Call("set_resume_action_continue", SINGLE_THREAD_TID, 0, 0)>>
    /\ err = Error("PacketUnexpected")

\* An m command one of whose read_addrs calls failed.
FailedRead == IsCmd({"m"}) /\ ev.arg.addr_ok /\ ev.host.at # 0

\* C32 (m with a failing chunk): when a read_addrs call fails, the response
\* holds no hex of the chunks read before it, so a non-fatal error is
\* reported to the client as E<code> alone.
C32_FailedReadLeavesNoData ==
    FailedRead =>
        /\ status = "Err"
        /\ resp = <<>>
        /\ err.kind = "NonFatalError" => sent = <<"E" \o write_num(err.code)>>

\* C32 as the code has it: when call k fails, the response holds the hex of
\* the k - 1 chunks read before it, one token a chunk, which is the hex of
\* the first (k - 1) * B bytes at the address; a non-fatal error is reported
\* as that hex followed by E<code>, a fatal one sends nothing. Only a failure
\* of the first call leaves the response empty.
C32_AsImplemented ==
    FailedRead =>
        LET k == ev.host.at
            B == PacketBufLen
        IN  /\ status = "Err"
            /\ Len(calls) = k
            /\ Len(resp) = k - 1
            /\ \A j \in 1..(k - 1) :
                   resp[j] = write_hex_buf(MemBytes(calls[j].x, calls[j].y))
            /\ Wire(resp) = write_hex_buf(MemBytes(ev.arg.addr, (k - 1) * B))
            /\ (resp = <<>>) <=> (k = 1)
            /\ IF err.kind = "NonFatalError"
               THEN sent = <<Wire(resp) \o "E" \o write_num(err.code)>>
               ELSE sent = <<>> /\ pc = "error"

\* The second chunk of a read failed with an errno after the first chunk's
\* hex was written: the reply is that hex followed by the error code.
C32_Witness ==
    /\ FailedRead
    /\ ev.host.at = 2
    /\ err = NonFatalError(HostErrno)
    /\ resp = <<write_hex_buf(MemBytes(ev.arg.addr, PacketBufLen))>>
    /\ sent = <<resp[1] \o "E" \o write_num(HostErrno)>>

\* What one read of the static XML returns: the bytes of the trimmed XML at
\* [offset, offset + length) clipped to its end, cut to the packet buffer, so
\* at most min(length, buffer size) of them, after m; l when there are none,
\* as for every offset at or past the end.
WindowServed ==
    StaticXfer =>
        /\ status = "Handled"
        /\ calls = <<>>
        /\ Len(ServedWindow) <= UsizeMin(ev.arg.length, PacketBufLen)
        /\ ~UsizeLt(ev.arg.offset, Len(TrimmedBytes)) => sent = <<"l">>
        /\ (UsizeLt(ev.arg.offset, Len(TrimmedBytes)) /\ ev.arg.length # 0) =>
               (ServedWindow # <<>> /\ sent = <<"m" \o write_binary(ServedWindow)>>)

\* What the reading debugger holds: the trimmed XML up to its offset, no
\* byte twice and none left out; it has made no more requests than the XML
\* has bytes, and one more for the l.
ClientHoldsPrefix ==
    /\ client.offset <= Len(TrimmedBytes)
    /\ client.got = SubSeq(TrimmedBytes, 1, client.offset)
    /\ client.requests <= client.offset + 1

\* C33 as stated (reading the static target description): every window is
\* served as WindowServed says; a debugger that keeps asking for a positive
\* number of bytes at the offset it has reached holds at every moment the
\* trimmed XML up to that offset, told the end it holds all of it, and after
\* finitely many requests it is answered l and holds the trimmed XML, once
\* and in order.
C33_StaticXmlTransfer ==
    /\ [](/\ WindowServed
          /\ ClientHoldsPrefix
          /\ client.done => (client.got = TrimmedBytes /\ client.requests >= 2))
    /\ <>(client.done /\ client.got = TrimmedBytes)

\* What one read of the static XML returns in the code: the window of
\* WindowServed as long as offset plus length stays within usize; l, whatever
\* the offset, or a panic with nothing sent, when it does not.
WindowServedUnlessOverflow ==
    StaticXfer =>
        /\ calls = <<>>
        /\ IF XferOverflows
           THEN \/ status = "Handled" /\ sent = <<"l">>
                \/ status = "Panic" /\ pc = "panicked" /\ sent = <<>>
           ELSE /\ status = "Handled"
                /\ sent = IF ServedWindow = <<>>
                          THEN <<"l">>
                          ELSE <<"m" \o write_binary(ServedWindow)>>
                /\ (UsizeLt(ev.arg.offset, Len(TrimmedBytes)) /\ ev.arg.length # 0)
                       => ServedWindow # <<>>

\* C33 as the code has it: a window is served as stated unless offset plus
\* length passes usize::MAX; the debugger always holds the trimmed XML up to
\* its offset, and it holds all of it when the l it is told the end with
\* answers a request that stayed within usize. A request that does not is
\* answered l before the end of the XML, or panics the stub; so after
\* finitely many requests the debugger is told the end, with or without the
\* whole XML, or the stub has panicked.
C33_AsImplemented ==
    /\ [](/\ WindowServedUnlessOverflow
          /\ ClientHoldsPrefix
          /\ (StaticXfer /\ client.done /\ ~XferOverflows) =>
                 (client.got = TrimmedBytes /\ client.requests >= 2)
          /\ pc = "panicked" => ~client.done)
    /\ <>(client.done \/ pc = "panicked")

\* The debugger asked for the largest length at an offset inside the XML and
\* was told the end holding only a part of the description.
C33_Witness ==
    /\ StaticXfer
    /\ ev.arg.length = UsizeMax
    /\ XferOverflows
    /\ sent = <<"l">>
    /\ client.done
    /\ client.got # <<>>
    /\ client.got # TrimmedBytes

====
